---- MODULE Spec2Model ----
(***************************************************************************)
(* Model of the in-memory relational store (RelationalDb: Rows, Table,     *)
(* Tables, Database) and of the metadata-driven integrity layers built on  *)
(* it (CrudModule.Crud and AdvancedCrudLib.AdvancedCrudManager).           *)
(*                                                                         *)
(* JavaScript values are tagged tuples, so that 1, '1', null and undefined *)
(* stay distinct under === as they do in the source.  A JavaScript array   *)
(* index k is the sequence position k + 1; "not found" (-1) is 0.          *)
(* Objects used as maps (row data, filters, foreignKeys) are sequences of  *)
(* <<key, value>> pairs in insertion order, which is the order in which    *)
(* for..in and Object.entries walk them.                                   *)
(***************************************************************************)
EXTENDS Integers, Sequences, FiniteSets, TLC

VARIABLES
  held,       \* the row arrays and row objects of the result a caller has kept
  tables,     \* Tables.tables: normalized name -> Table
  metadata,   \* Crud.metadata: sequence of <<normalized name, meta>>
  stack,      \* call stack of a running Crud.prototype.delete
  result,     \* what the last call was given and what it returned or threw
  pre,        \* the catalog as it was when the running cascade delete began
  returned,   \* per table, the identities Database.create calls on the raw store returned
  advMetadata,     \* AdvancedCrudManager.metadata: sequence of <<key, meta>>
  validationCache, \* AdvancedCrudManager.validationCache: set of <<cache key, code>>
  depthCache,      \* AdvancedCrudManager.depthCache: sequence of <<key, depth>>
  views            \* Views.views: sequence of <<name, view>>

\* Every variable. The operation, table and outcome of the last call lead: two
\* states that differ in them are told apart there, before the comparison
\* reaches the values two different operations return, which TLC cannot
\* compare when one is a record and the other a tuple.
vars ==
  <<result.op, result.table, result.status, held, tables, metadata, stack, result, pre,
    returned, advMetadata, validationCache, depthCache, views>>

(***************************************************************************)
(* Bounds of the model.                                                    *)
(***************************************************************************)
\* Identities a table of the raw-store specification hands out before creates stop.
MaxRowId == 3
\* The same for each table of the integrity-layer specification.
MaxCrudId == 2

(***************************************************************************)
(* JavaScript values.                                                      *)
(***************************************************************************)
Num(n) == <<"num", n>>
Str(s) == <<"str", s>>
Null == <<"null">>
Undef == <<"undefined">>

IsNum(v) == Len(v) = 2 /\ v[1] = "num"
IsStr(v) == Len(v) = 2 /\ v[1] = "str"

\* val == null
IsNullish(v) == v = Null \/ v = Undef

\* The string Array.prototype.join makes of one element.
ElementString(v) ==
  IF IsNullish(v) THEN ""
  ELSE IF IsNum(v) THEN ToString(v[2])
  ELSE v[2]

RECURSIVE JoinFrom(_, _, _)
JoinFrom(arr, sep, i) ==
  IF i > Len(arr) THEN ""
  ELSE IF i = Len(arr) THEN ElementString(arr[i])
  ELSE ElementString(arr[i]) \o sep \o JoinFrom(arr, sep, i + 1)

Join(arr, sep) == JoinFrom(arr, sep, 1)

(***************************************************************************)
(* Objects as ordered key/value lists.                                     *)
(***************************************************************************)
Keys(obj) == {obj[i][1] : i \in 1..Len(obj)}

HasKey(obj, key) == key \in Keys(obj)

\* obj[key]
Lookup(obj, key) ==
  IF HasKey(obj, key)
  THEN obj[CHOOSE i \in 1..Len(obj) : obj[i][1] = key][2]
  ELSE Undef

\* delete obj[key]
Without(obj, key) == SelectSeq(obj, LAMBDA kv : kv[1] # key)

(***************************************************************************)
(* Columns                                                                 *)
(***************************************************************************)
GetIndex(names, name) ==
  IF \E i \in 1..Len(names) : names[i] = name
  THEN CHOOSE i \in 1..Len(names) :
         names[i] = name /\ \A j \in 1..(i - 1) : names[j] # name
  ELSE 0

(***************************************************************************)
(* Table names                                                             *)
(***************************************************************************)
StartsWithTbl(name) == Len(name) >= 3 /\ SubSeq(name, 1, 3) = "tbl"

NormalizeName(name) == IF StartsWithTbl(name) THEN name ELSE "tbl" \o name

(***************************************************************************)
(* Rows                                                                    *)
(***************************************************************************)
NewRows(table) ==
  [table EXCEPT !.data = <<>>,
                !.nextId = 1,
                !.uniqueMaps = [i \in 1..Len(table.unique) |-> {}]]

GetUniqueKey(tbl, rowData, uniqueIndex) ==
  LET uniqueCols == tbl.unique[uniqueIndex]
      picked == [j \in 1..Len(uniqueCols) |->
                  LET idx == GetIndex(tbl.columns, uniqueCols[j])
                  IN IF idx = 0 THEN Undef ELSE rowData[idx]]
  IN Join(picked, "::")

\* The array without fill(null): an unset column is an empty slot, read as undefined.
FillRowSparse(tbl, rowData) ==
  [i \in 1..Len(tbl.columns) |->
     IF \E k \in 1..Len(rowData) : GetIndex(tbl.columns, rowData[k][1]) = i
     THEN rowData[CHOOSE k \in 1..Len(rowData) :
                    GetIndex(tbl.columns, rowData[k][1]) = i][2]
     ELSE Undef]

\* new Array(n).fill(null), then the for..in loop of Rows.add
FillRow(tbl, rowData) ==
  [i \in 1..Len(tbl.columns) |->
     IF \E k \in 1..Len(rowData) : GetIndex(tbl.columns, rowData[k][1]) = i
     THEN rowData[CHOOSE k \in 1..Len(rowData) :
                    GetIndex(tbl.columns, rowData[k][1]) = i][2]
     ELSE Null]

\* arr[0] = this.nextId++ : the counter after the call
BumpNextId(nextId) == nextId + 1

\* The unique-constraint loop of Rows.add from constraint i on.
RECURSIVE AddUniqueLoop(_, _, _, _)
AddUniqueLoop(tbl, arr, i, maps) ==
  IF i > Len(tbl.unique) THEN [status |-> "ok", maps |-> maps]
  ELSE IF i > Len(maps) THEN [status |-> "TypeError", maps |-> maps]
  ELSE LET key == GetUniqueKey(tbl, arr, i)
       IN IF key \in maps[i]
          THEN [status |-> "UniqueViolation", maps |-> maps]
          ELSE AddUniqueLoop(tbl, arr, i + 1, [maps EXCEPT ![i] = @ \cup {key}])

RowsAdd(tbl, rowData) ==
  LET arr == [FillRow(tbl, rowData) EXCEPT ![1] = Num(tbl.nextId)]
      counted == [tbl EXCEPT !.nextId = BumpNextId(@)]
      loop == AddUniqueLoop(tbl, arr, 1, tbl.uniqueMaps)
      indexed == [counted EXCEPT !.uniqueMaps = loop.maps]
  IN IF loop.status = "ok"
     THEN [status |-> "ok", tbl |-> [indexed EXCEPT !.data = Append(@, arr)],
           value |-> arr[1]]
     ELSE [status |-> loop.status, tbl |-> indexed, value |-> Undef]

\* Position in data of the row Rows.get(id) finds, 0 when it finds none.
RowsGet(tbl, id) ==
  IF \E p \in 1..Len(tbl.data) : tbl.data[p][1] = id
  THEN CHOOSE p \in 1..Len(tbl.data) :
         tbl.data[p][1] = id /\ \A q \in 1..(p - 1) : tbl.data[q][1] # id
  ELSE 0

\* The for..in loop of Rows.update: only columns at index > 0 are written.
\* The for..in loop of Rows.update as it would be with idx > -1: the identity
\* column is written like any other.
ApplyUpdatesAll(tbl, rowData, updates) ==
  [i \in 1..Len(rowData) |->
     IF \E k \in 1..Len(updates) : GetIndex(tbl.columns, updates[k][1]) = i
     THEN updates[CHOOSE k \in 1..Len(updates) :
                    GetIndex(tbl.columns, updates[k][1]) = i][2]
     ELSE rowData[i]]

ApplyUpdates(tbl, rowData, updates) ==
  [i \in 1..Len(rowData) |->
     IF i > 1 /\ \E k \in 1..Len(updates) : GetIndex(tbl.columns, updates[k][1]) = i
     THEN updates[CHOOSE k \in 1..Len(updates) :
                    GetIndex(tbl.columns, updates[k][1]) = i][2]
     ELSE rowData[i]]

\* The loop of Rows.update as it would be without the newKey !== oldKey test: a
\* row collides with its own index entry.
RECURSIVE UpdateUniqueLoopNoSelf(_, _, _, _, _)
UpdateUniqueLoopNoSelf(tbl, oldData, newData, i, maps) ==
  IF i > Len(tbl.unique) THEN [status |-> "ok", maps |-> maps]
  ELSE IF i > Len(maps) THEN [status |-> "TypeError", maps |-> maps]
  ELSE LET oldKey == GetUniqueKey(tbl, oldData, i)
           newKey == GetUniqueKey(tbl, newData, i)
       IN IF newKey \in maps[i]
          THEN [status |-> "UniqueViolation", maps |-> maps]
          ELSE UpdateUniqueLoopNoSelf(tbl, oldData, newData, i + 1,
                 [maps EXCEPT ![i] = (@ \ {oldKey}) \cup {newKey}])

\* The unique-constraint loop of Rows.update from constraint i on.
RECURSIVE UpdateUniqueLoop(_, _, _, _, _)
UpdateUniqueLoop(tbl, oldData, newData, i, maps) ==
  IF i > Len(tbl.unique) THEN [status |-> "ok", maps |-> maps]
  ELSE IF i > Len(maps) THEN [status |-> "TypeError", maps |-> maps]
  ELSE LET oldKey == GetUniqueKey(tbl, oldData, i)
           newKey == GetUniqueKey(tbl, newData, i)
       IN IF newKey # oldKey /\ newKey \in maps[i]
          THEN [status |-> "UniqueViolation", maps |-> maps]
          ELSE IF newKey # oldKey
          THEN UpdateUniqueLoop(tbl, oldData, newData, i + 1,
                 [maps EXCEPT ![i] = (@ \ {oldKey}) \cup {newKey}])
          ELSE UpdateUniqueLoop(tbl, oldData, newData, i + 1, maps)

\* Rows.update as it would be if it threw for an id that has no row.
RowsUpdateStrict(tbl, id, updates) ==
  [status |-> IF RowsGet(tbl, id) = 0 THEN "NotFound" ELSE "ok", tbl |-> tbl, value |-> Undef]

RowsUpdate(tbl, id, updates) ==
  LET p == RowsGet(tbl, id)
  IN IF p = 0 THEN [status |-> "ok", tbl |-> tbl, value |-> Undef]
     ELSE LET oldData == tbl.data[p]
              newData == ApplyUpdates(tbl, oldData, updates)
              loop == UpdateUniqueLoop(tbl, oldData, newData, 1, tbl.uniqueMaps)
              indexed == [tbl EXCEPT !.uniqueMaps = loop.maps]
          IN IF loop.status = "ok"
             THEN [status |-> "ok", tbl |-> [indexed EXCEPT !.data[p] = newData],
                   value |-> Undef]
             ELSE IF loop.status = "UniqueViolation"
             \* row.data = oldData
             THEN [status |-> loop.status, tbl |-> [indexed EXCEPT !.data[p] = oldData],
                   value |-> Undef]
             \* a TypeError leaves the written row as it is
             ELSE [status |-> loop.status, tbl |-> [indexed EXCEPT !.data[p] = newData],
                   value |-> Undef]

\* The loop of Rows.delete over the unique constraints from constraint i on.
RECURSIVE DeleteUniqueLoop(_, _, _, _)
DeleteUniqueLoop(tbl, rowData, i, maps) ==
  IF i > Len(tbl.unique) THEN [status |-> "ok", maps |-> maps]
  ELSE IF i > Len(maps) THEN [status |-> "TypeError", maps |-> maps]
  ELSE DeleteUniqueLoop(tbl, rowData, i + 1,
         [maps EXCEPT ![i] = @ \ {GetUniqueKey(tbl, rowData, i)}])

\* Rows.delete as it would be if it handed the highest identity out again.
RowsDeleteReclaim(tbl, id) ==
  LET p == RowsGet(tbl, id)
  IN IF p = 0 THEN [status |-> "ok", tbl |-> tbl, value |-> Undef]
     ELSE [status |-> "ok",
           tbl |-> [tbl EXCEPT !.data = SelectSeq(@, LAMBDA r : r[1] # id),
                               !.nextId = IF id = Num(@ - 1) THEN @ - 1 ELSE @],
           value |-> Undef]

RowsDelete(tbl, id) ==
  LET p == RowsGet(tbl, id)
  IN IF p = 0 THEN [status |-> "ok", tbl |-> tbl, value |-> Undef]
     ELSE LET loop == DeleteUniqueLoop(tbl, tbl.data[p], 1, tbl.uniqueMaps)
              indexed == [tbl EXCEPT !.uniqueMaps = loop.maps]
          IN IF loop.status = "ok"
             THEN [status |-> "ok",
                   tbl |-> [indexed EXCEPT !.data = SelectSeq(@, LAMBDA r : r[1] # id)],
                   value |-> Undef]
             ELSE [status |-> loop.status, tbl |-> indexed, value |-> Undef]

\* Whether the filter callback of Rows.find keeps row r.
\* The test of Rows.find as it would be with idx > 0: a filter on the identity
\* column constrains nothing.
FindKeepsSkipsId(tbl, r, filter) ==
  \A k \in 1..Len(filter) :
    LET idx == GetIndex(tbl.columns, filter[k][1])
    IN ~(idx > 1 /\ r[idx] # filter[k][2])

FindKeeps(tbl, r, filter) ==
  \A k \in 1..Len(filter) :
    LET idx == GetIndex(tbl.columns, filter[k][1])
    IN ~(idx > 0 /\ r[idx] # filter[k][2])

RowsFind(tbl, filter) == SelectSeq(tbl.data, LAMBDA r : FindKeeps(tbl, r, filter))

(***************************************************************************)
(* Table, Tables                                                           *)
(***************************************************************************)
FirstColumnIsId(columnNames) == Len(columnNames) > 0 /\ columnNames[1] = "id"

NewTable(name, columnNames, unique) ==
  NewRows([name |-> name, columns |-> columnNames, unique |-> unique,
           data |-> <<>>, nextId |-> 1, uniqueMaps |-> <<>>])

\* Tables.addTable as it would be if the table were stored before its
\* constructor checked the columns.
AddTableUnchecked(cat, name, columns, unique) ==
  LET n == NormalizeName(name)
  IN [status |-> IF FirstColumnIsId(columns) THEN "ok" ELSE "Error",
      tables |-> [t \in DOMAIN cat \cup {n} |->
                    IF t = n THEN NewTable(n, columns, unique) ELSE cat[t]]]

\* Tables.addTable: the catalog afterwards, and whether the constructor threw.
AddTable(cat, name, columns, unique) ==
  LET n == NormalizeName(name)
  IN IF FirstColumnIsId(columns)
     THEN [status |-> "ok",
           tables |-> [t \in DOMAIN cat \cup {n} |->
                         IF t = n THEN NewTable(n, columns, unique) ELSE cat[t]]]
     ELSE [status |-> "Error", tables |-> cat]

\* Tables.getTable: whether it returns a table, and which.
HasTable(cat, name) == NormalizeName(name) \in DOMAIN cat

GetTable(cat, name) == cat[NormalizeName(name)]

(***************************************************************************)
(* Database                                                                *)
(***************************************************************************)
\* table.rows of an undefined table is a TypeError.
DatabaseCreate(cat, tableName, rowData) ==
  IF ~HasTable(cat, tableName)
  THEN [status |-> "TypeError", tables |-> cat, value |-> Undef]
  ELSE LET r == RowsAdd(GetTable(cat, tableName), rowData)
       IN [status |-> r.status,
           tables |-> [cat EXCEPT ![NormalizeName(tableName)] = r.tbl],
           value |-> r.value]

DatabaseUpdate(cat, tableName, id, updates) ==
  IF ~HasTable(cat, tableName)
  THEN [status |-> "TypeError", tables |-> cat, value |-> Undef]
  ELSE LET r == RowsUpdate(GetTable(cat, tableName), id, updates)
       IN [status |-> r.status,
           tables |-> [cat EXCEPT ![NormalizeName(tableName)] = r.tbl],
           value |-> r.value]

DatabaseDelete(cat, tableName, id) ==
  IF ~HasTable(cat, tableName)
  THEN [status |-> "TypeError", tables |-> cat, value |-> Undef]
  ELSE LET r == RowsDelete(GetTable(cat, tableName), id)
       IN [status |-> r.status,
           tables |-> [cat EXCEPT ![NormalizeName(tableName)] = r.tbl],
           value |-> r.value]

\* Database.read(...).toArray()
DatabaseRead(cat, tableName, filter) == RowsFind(GetTable(cat, tableName), filter)

(***************************************************************************)
(* View and Views                                                          *)
(*                                                                         *)
(* A view is [tableNames, joins], a join [rightTable, leftCol, rightCol].  *)
(* A Rowset is [columns, rows], rows being what toArray() gives.           *)
(***************************************************************************)
\* data[idx], idx being what indexOf returned: data[-1] is undefined.
Cell(data, idx) == IF idx = 0 THEN Undef ELSE data[idx]

\* The row without slice(1): the right row with its identity.
CombinedWhole(leftRow, rightRow) == leftRow \o rightRow

\* [...leftRow.data, ...rightRow.data.slice(1)]
Combined(leftRow, rightRow) == leftRow \o Tail(rightRow)

\* The inner loop of View.getData for one left row.
JoinLeftRow(leftRow, rightData, leftColIdx, rightColIdx) ==
  LET hits == SelectSeq(rightData,
                        LAMBDA r : Cell(leftRow, leftColIdx) = Cell(r, rightColIdx))
  IN [k \in 1..Len(hits) |-> Combined(leftRow, hits[k])]

\* The outer loop of View.getData from left row i on.
RECURSIVE JoinRowsFrom(_, _, _, _, _)
JoinRowsFrom(resultRows, rightData, leftColIdx, rightColIdx, i) ==
  IF i > Len(resultRows) THEN <<>>
  ELSE JoinLeftRow(resultRows[i], rightData, leftColIdx, rightColIdx)
       \o JoinRowsFrom(resultRows, rightData, leftColIdx, rightColIdx, i + 1)

\* The loop over this.joins from join i on: "TypeError" when the right table
\* is undefined.
RECURSIVE JoinsFrom(_, _, _, _, _)
JoinsFrom(cat, joins, resultRows, currentColumns, i) ==
  IF i > Len(joins) THEN [status |-> "ok", columns |-> currentColumns, rows |-> resultRows]
  ELSE IF ~HasTable(cat, joins[i].rightTable)
  THEN [status |-> "TypeError", columns |-> currentColumns, rows |-> resultRows]
  ELSE LET rightTable == GetTable(cat, joins[i].rightTable)
           leftColIdx == GetIndex(currentColumns, joins[i].leftCol)
           rightColIdx == GetIndex(rightTable.columns, joins[i].rightCol)
           pushed == [k \in 1..(Len(rightTable.columns) - 1) |->
                        joins[i].rightTable \o "." \o rightTable.columns[k + 1]]
       IN JoinsFrom(cat, joins,
                    JoinRowsFrom(resultRows, rightTable.data, leftColIdx, rightColIdx, 1),
                    currentColumns \o pushed, i + 1)

\* View.getData
ViewGetData(cat, view) ==
  IF ~HasTable(cat, view.tableNames[1])
  THEN [status |-> "TypeError", columns |-> <<>>, rows |-> <<>>]
  ELSE LET currentTable == GetTable(cat, view.tableNames[1])
       IN JoinsFrom(cat, view.joins, currentTable.data, currentTable.columns, 1)

\* Views.addView
AddView(vs, name, tableNames, joins) ==
  LET view == [tableNames |-> tableNames, joins |-> joins]
  IN IF \E i \in 1..Len(vs) : vs[i][1] = name
     THEN [i \in 1..Len(vs) |-> IF vs[i][1] = name THEN <<name, view>> ELSE vs[i]]
     ELSE Append(vs, <<name, view>>)

\* The catalog the views of the model are declared over: A(id, x), B(id, a_id).
ViewCatalog ==
  AddTable(AddTable(<<>>, "A", <<"id", "x">>, <<>>).tables,
           "B", <<"id", "a_id">>, <<>>).tables

\* Views.getView as it would be if a view kept the rows its tables held when it
\* was added.
ViewsGetViewMaterialized(cat, vs, name) ==
  IF ~\E i \in 1..Len(vs) : vs[i][1] = name
  THEN [status |-> "ok", value |-> Null]
  ELSE LET r == ViewGetData(ViewCatalog, vs[CHOOSE i \in 1..Len(vs) : vs[i][1] = name][2])
       IN [status |-> r.status, value |-> [columns |-> r.columns, rows |-> r.rows]]

\* Views.getView: null for an unknown name, else the Rowset getData returns
ViewsGetView(cat, vs, name) ==
  IF ~\E i \in 1..Len(vs) : vs[i][1] = name
  THEN [status |-> "ok", value |-> Null]
  ELSE LET r == ViewGetData(cat, vs[CHOOSE i \in 1..Len(vs) : vs[i][1] = name][2])
       IN [status |-> r.status, value |-> [columns |-> r.columns, rows |-> r.rows]]

(***************************************************************************)
(* CrudModule.Crud                                                         *)
(*                                                                         *)
(* A table's meta is [primaryKey, foreignKeys]: primaryKey is "" when the  *)
(* declaration gives none, foreignKeys is the declared column -> table map *)
(* (empty when the declaration gives none: both skip the loops).           *)
(***************************************************************************)
EmptyMeta == [primaryKey |-> "", foreignKeys |-> <<>>]

\* this.metadata[tableName] || {}
MetaOf(md, tableName) ==
  IF \E i \in 1..Len(md) : md[i][1] = tableName
  THEN md[CHOOSE i \in 1..Len(md) : md[i][1] = tableName][2]
  ELSE EmptyMeta

CrudNormalize(name) == IF StartsWithTbl(name) THEN name ELSE "tbl" \o name

\* Crud.prototype.define: an assignment to a present key keeps the key's place.
CrudDefine(md, tableName, meta) ==
  LET n == CrudNormalize(tableName)
  IN IF \E i \in 1..Len(md) : md[i][1] = n
     THEN [i \in 1..Len(md) |-> IF md[i][1] = n THEN <<n, meta>> ELSE md[i]]
     ELSE Append(md, <<n, meta>>)

\* meta.primaryKey || 'id'
PkOf(md, tableName) ==
  LET pk == MetaOf(md, CrudNormalize(tableName)).primaryKey
  IN IF pk = "" THEN "id" ELSE pk

\* The foreign-key loop of Crud.prototype.create as it would be without the
\* `if (val == null) continue`: a null or absent value is looked up as well.
RECURSIVE ValidateForeignKeysNoSkip(_, _, _, _, _)
ValidateForeignKeysNoSkip(cat, md, fks, obj, i) ==
  IF i > Len(fks) THEN "ok"
  ELSE LET fkTable == fks[i][2]
           val == Lookup(obj, fks[i][1])
       IN IF ~HasTable(cat, fkTable) THEN "TypeError"
          ELSE IF Len(DatabaseRead(cat, fkTable, << <<PkOf(md, fkTable), val>> >>)) = 0
          THEN "ForeignKeyViolation"
          ELSE ValidateForeignKeysNoSkip(cat, md, fks, obj, i + 1)

\* The foreign-key loop of Crud.prototype.create from entry i on: "ok" when no
\* entry throws, else what the first throwing entry throws.
RECURSIVE ValidateForeignKeys(_, _, _, _, _)
ValidateForeignKeys(cat, md, fks, obj, i) ==
  IF i > Len(fks) THEN "ok"
  ELSE LET fkTable == fks[i][2]
           val == Lookup(obj, fks[i][1])
       IN IF IsNullish(val) THEN ValidateForeignKeys(cat, md, fks, obj, i + 1)
          ELSE IF ~HasTable(cat, fkTable) THEN "TypeError"
          ELSE IF Len(DatabaseRead(cat, fkTable, << <<PkOf(md, fkTable), val>> >>)) = 0
          THEN "ForeignKeyViolation"
          ELSE ValidateForeignKeys(cat, md, fks, obj, i + 1)

CrudCreate(cat, md, tableName, obj) ==
  LET n == CrudNormalize(tableName)
      checked == ValidateForeignKeys(cat, md, MetaOf(md, n).foreignKeys, obj, 1)
  IN IF checked # "ok"
     THEN [status |-> checked, tables |-> cat, value |-> Undef]
     ELSE DatabaseCreate(cat, n, obj)

\* if (v): false for undefined, null, 0 and ''
Truthy(v) == ~IsNullish(v) /\ v # Num(0) /\ v # Str("")

\* if (updates[pk]) delete updates[pk]
CleanUpdates(md, tableName, updates) ==
  LET pk == PkOf(md, CrudNormalize(tableName))
  IN IF Truthy(Lookup(updates, pk)) THEN Without(updates, pk) ELSE updates

\* Crud.prototype.update
CrudUpdate(cat, md, tableName, id, updates) ==
  DatabaseUpdate(cat, CrudNormalize(tableName), id, CleanUpdates(md, tableName, updates))

\* Crud.prototype._rowToObject
RowToObject(cat, tableName, arr) ==
  LET names == GetTable(cat, CrudNormalize(tableName)).columns
  IN [i \in 1..Len(names) |-> <<names[i], arr[i]>>]

\* Crud.prototype.readAll
CrudReadAll(cat, tableName, filter) ==
  LET n == CrudNormalize(tableName)
      rows == DatabaseRead(cat, n, filter)
  IN [i \in 1..Len(rows) |-> RowToObject(cat, n, rows[i])]

\* Crud.prototype.get: the first row read, or null
CrudGet(cat, md, tableName, id) ==
  LET found == CrudReadAll(cat, tableName, << <<PkOf(md, tableName), id>> >>)
  IN IF Len(found) > 0 THEN found[1] ELSE Null

\* The (child table, column) pairs the loops of Crud.prototype.delete read for
\* tableName, in the order the loops reach them: from entry i of the metadata on.
RECURSIVE ReferencingPairs(_, _, _)
ReferencingPairs(md, tableName, i) ==
  IF i > Len(md) THEN <<>>
  ELSE LET t == md[i][1]
           fks == md[i][2].foreignKeys
           hits == SelectSeq(fks, LAMBDA e : e[2] = tableName)
       IN [k \in 1..Len(hits) |-> <<t, hits[k][1]>>] \o ReferencingPairs(md, tableName, i + 1)

\* A frame of Crud.prototype.delete as it would be without the loops over the
\* metadata: the row is deleted at once.
DeleteFrameNoLoops(md, tableName, id) ==
  [table |-> CrudNormalize(tableName), id |-> id, pairs |-> <<>>, child |-> "", rows |-> <<>>]

\* A frame of Crud.prototype.delete(tableName, id): the pairs it has still to
\* read, and the rows of the pair it is in that it has still to delete.
DeleteFrame(md, tableName, id) ==
  [table |-> CrudNormalize(tableName), id |-> id,
   pairs |-> ReferencingPairs(md, CrudNormalize(tableName), 1),
   child |-> "", rows |-> <<>>]

\* meta.displayField: "" when the declaration gives none
DisplayFieldOf(meta) == IF "displayField" \in DOMAIN meta THEN meta.displayField ELSE ""

\* String.prototype.split('+') from character i on, cur the piece begun
RECURSIVE SplitFrom(_, _, _)
SplitFrom(str, i, cur) ==
  IF i > Len(str) THEN <<cur>>
  ELSE IF SubSeq(str, i, i) = "+" THEN <<cur>> \o SplitFrom(str, i + 1, "")
  ELSE SplitFrom(str, i + 1, cur \o SubSeq(str, i, i))

\* String.prototype.trim, for the blanks a displayField holds
RECURSIVE Trim(_)
Trim(str) ==
  IF Len(str) > 0 /\ SubSeq(str, 1, 1) = " " THEN Trim(SubSeq(str, 2, Len(str)))
  ELSE IF Len(str) > 0 /\ SubSeq(str, Len(str), Len(str)) = " "
  THEN Trim(SubSeq(str, 1, Len(str) - 1))
  ELSE str

\* obj[key] = value
WithKey(obj, key, value) ==
  IF HasKey(obj, key)
  THEN [i \in 1..Len(obj) |-> IF obj[i][1] = key THEN <<key, value>> ELSE obj[i]]
  ELSE Append(obj, <<key, value>>)

\* The foreign-key loop of Crud.prototype.resolveDisplay from entry i on,
\* writing to out.
RECURSIVE ResolveForeignKeys(_, _, _, _, _, _)
ResolveForeignKeys(cat, md, fks, rowObj, out, i) ==
  IF i > Len(fks) THEN [status |-> "ok", value |-> out]
  ELSE LET col == fks[i][1]
           fkTable == fks[i][2]
           fkVal == Lookup(rowObj, col)
           displayField == DisplayFieldOf(MetaOf(md, fkTable))
       IN IF IsNullish(fkVal) \/ displayField = ""
          THEN ResolveForeignKeys(cat, md, fks, rowObj, out, i + 1)
          ELSE IF ~HasTable(cat, fkTable) THEN [status |-> "TypeError", value |-> out]
          ELSE LET fkRow == CrudGet(cat, md, fkTable, fkVal)
               IN ResolveForeignKeys(cat, md, fks, rowObj,
                    IF fkRow = Null THEN out
                    ELSE WithKey(out, col \o "_display", Lookup(fkRow, displayField)),
                    i + 1)

\* What Crud.prototype.resolveDisplay returns, or what it throws.
ResolveDisplayOut(cat, md, tableName, rowObj) ==
  LET meta == MetaOf(md, CrudNormalize(tableName))
      r == ResolveForeignKeys(cat, md, meta.foreignKeys, rowObj, rowObj, 1)
      parts == SplitFrom(DisplayFieldOf(meta), 1, "")
      display == Join([k \in 1..Len(parts) |-> Lookup(rowObj, Trim(parts[k]))], " ")
  IN IF r.status # "ok" \/ DisplayFieldOf(meta) = "" THEN r
     ELSE [status |-> "ok", value |-> WithKey(r.value, "_display", Str(display))]

\* Crud.prototype.resolveDisplay as it would be with `const out = rowObj`: the
\* display entries are written to the object passed in.
ResolveDisplayInPlace(cat, md, tableName, rowObj) ==
  LET r == ResolveDisplayOut(cat, md, tableName, rowObj)
  IN [status |-> r.status, out |-> r.value, obj |-> r.value]

\* Crud.prototype.resolveDisplay: out is a copy ({ ...rowObj }), so the object
\* passed in is after the call what it was; nothing is written to the store.
ResolveDisplay(cat, md, tableName, rowObj) ==
  LET r == ResolveDisplayOut(cat, md, tableName, rowObj)
  IN [status |-> r.status, out |-> r.value, obj |-> rowObj]

(***************************************************************************)
(* AdvancedCrudLib.BranchlessUtils                                         *)
(***************************************************************************)
\* ToInt32, which the bitwise operators apply to each operand: a number is
\* itself (the numbers of the model are small integers); null, undefined, an
\* object and a string that is no numeral (no string here is one) give 0.
ToInt32(v) == IF IsNum(v) THEN v[2] ELSE 0

\* x & mask for the two masks select builds: -1 (every bit set) and 0.
AndMask(x, mask) == IF mask = -1 THEN x ELSE 0

\* a | b where one of the two is 0
OrZero(a, b) == IF a = 0 THEN b ELSE a

\* BranchlessUtils.select: (trueVal & mask) | (falseVal & ~mask), mask = -(!!condition)
Select(condition, trueVal, falseVal) ==
  LET mask == IF Truthy(condition) THEN -1 ELSE 0
  IN Num(OrZero(AndMask(ToInt32(trueVal), mask), AndMask(ToInt32(falseVal), -1 - mask)))

\* A JavaScript integer n at full width: the pair <<hi, lo>> with
\* n = hi * 65536 + lo and 0 <= lo < 65536. The difference and the sum of two
\* 32-bit integers need 33 bits, which the pair holds exactly, as the
\* double of the program does.
Wide(n) == <<n \div 65536, n % 65536>>

WideSub(a, b) ==
  LET lo == a[2] - b[2]
  IN IF lo < 0 THEN <<a[1] - b[1] - 1, lo + 65536>> ELSE <<a[1] - b[1], lo>>

WideAdd(a, b) ==
  LET lo == a[2] + b[2]
  IN IF lo >= 65536 THEN <<a[1] + b[1] + 1, lo - 65536>> ELSE <<a[1] + b[1], lo>>

WideLess(a, b) == a[1] < b[1] \/ (a[1] = b[1] /\ a[2] < b[2])

\* The conversion >> and & apply to their left operand: the value modulo 2^32,
\* read as a signed 32-bit integer.
WrapInt32(w) == <<((w[1] + 32768) % 65536) - 32768, w[2]>>

\* BranchlessUtils.max: diff = a - b; mask = (diff >> 31) & 1;
\* a - (diff & -mask).
BranchlessMax(a, b) ==
  LET diff == WideSub(a, b)
      mask == IF WrapInt32(diff)[1] < 0 THEN 1 ELSE 0
      masked == IF mask = 1 THEN WrapInt32(diff) ELSE Wide(0)
  IN WideSub(a, masked)

\* BranchlessUtils.min: diff = a - b; mask = (diff >> 31) & 1;
\* b + (diff & -mask).
BranchlessMin(a, b) ==
  LET diff == WideSub(a, b)
      mask == IF WrapInt32(diff)[1] < 0 THEN 1 ELSE 0
      masked == IF mask = 1 THEN WrapInt32(diff) ELSE Wide(0)
  IN WideAdd(b, masked)

\* BranchlessUtils.max on the depths of the manager: the operands are depths,
\* so diff lies in the 32-bit range, where the conversion leaves it as it is
\* and BranchlessMax comes to this.
Max(a, b) ==
  LET diff == a - b
      mask == IF diff < 0 THEN 1 ELSE 0
  IN a - (IF mask = 1 THEN diff ELSE 0)

\* +(boolean)
Plus(b) == Num(IF b THEN 1 ELSE 0)

\* BranchlessUtils.nullDefault
NullDefault(value, defaultVal) == Select(Plus(IsNullish(value)), defaultVal, value)

\* BranchlessUtils.boundedIndex
BoundedIndex(index, arrayLength) ==
  Select(Plus(index >= 0 /\ index < arrayLength), Num(index), Num(-1))

(***************************************************************************)
(* AdvancedCrudLib.AdvancedCrudManager                                     *)
(*                                                                         *)
(* The keys of the metadata Map are the values _normalize returns.  A meta *)
(* is [primaryKey, foreignKeys] as above, primaryKey defaulting to 'id'.   *)
(***************************************************************************)
\* LookupTables.validationCodes
SUCCESS == 0
FK_VIOLATION == 1

\* The property key a value names: { [pk]: val }, delete obj[pk], `${name}`
PropertyKey(v) ==
  IF IsNum(v) THEN ToString(v[2])
  ELSE IF IsStr(v) THEN v[2]
  ELSE IF v = Null THEN "null" ELSE "undefined"

\* name.startsWith is a function only when name is a string.
NormalizeThrows(name) == ~IsStr(name)

\* AdvancedCrudManager._normalize, for a name it does not throw on
AdvNormalize(name) ==
  Select(Plus(StartsWithTbl(name[2])), name, Str("tbl" \o name[2]))

AdvHas(md, key) == \E i \in 1..Len(md) : md[i][1] = key

AdvGet(md, key) == md[CHOOSE i \in 1..Len(md) : md[i][1] = key][2]

\* Map.set: a present key keeps its place.
MapSet(m, key, value) ==
  IF AdvHas(m, key)
  THEN [i \in 1..Len(m) |-> IF m[i][1] = key THEN <<key, value>> ELSE m[i]]
  ELSE Append(m, <<key, value>>)

\* AdvancedCrudManager.define up to this.metadata.set(normalizedName, enhancedMeta)
AdvDefine(md, tableName, meta) ==
  LET n == AdvNormalize(Str(tableName))
      enhancedMeta == [primaryKey |-> IF meta.primaryKey = "" THEN "id" ELSE meta.primaryKey,
                       foreignKeys |-> meta.foreignKeys,
                       depth |-> 0]
  IN MapSet(md, n, enhancedMeta)

\* calculateDepth(tableName) inside _calculateDepthsRecursive, and the reduce
\* over meta.foreignKeys.values() from entry i on with accumulator max.  st is
\* [md, cache, visited]: the metadata Map, the depthCache Map and the visited
\* Set as the call finds them; the result adds status ("ok", or "Error" for the
\* circular-dependency throw) and the value returned.
RECURSIVE CalculateDepth(_, _, _)
RECURSIVE ReduceDepths(_, _, _, _, _)
CalculateDepth(st, calculating, tableName) ==
  IF AdvHas(st.cache, tableName)
  THEN [status |-> "ok", value |-> AdvGet(st.cache, tableName), st |-> st]
  ELSE IF tableName \in calculating
  THEN [status |-> "Error", value |-> 0, st |-> st]
  ELSE IF tableName \in st.visited
  THEN [status |-> "ok",
        value |-> IF AdvHas(st.md, tableName) THEN AdvGet(st.md, tableName).depth ELSE 0,
        st |-> st]
  ELSE LET fks == IF AdvHas(st.md, tableName)
                  THEN AdvGet(st.md, tableName).foreignKeys ELSE <<>>
           r == ReduceDepths(st, calculating \cup {tableName}, fks, 1, 0)
           maxDepth == r.value
           md2 == IF AdvHas(r.st.md, tableName)
                  THEN MapSet(r.st.md, tableName,
                              [AdvGet(r.st.md, tableName) EXCEPT !.depth = maxDepth])
                  ELSE r.st.md
       IN IF r.status # "ok" THEN r
          ELSE [status |-> "ok", value |-> maxDepth,
                st |-> [md |-> md2,
                        cache |-> MapSet(r.st.cache, tableName, maxDepth),
                        visited |-> r.st.visited \cup {tableName}]]

ReduceDepths(st, calculating, fks, i, max) ==
  IF i > Len(fks) THEN [status |-> "ok", value |-> max, st |-> st]
  ELSE LET parentTable == Str(fks[i][2])
       IN IF ~AdvHas(st.md, parentTable)
          THEN ReduceDepths(st, calculating, fks, i + 1, Max(max, 0))
          ELSE LET c == CalculateDepth(st, calculating, parentTable)
               IN IF c.status # "ok" THEN c
                  ELSE ReduceDepths(c.st, calculating, fks, i + 1, Max(max, c.value + 1))

\* for (const tableName of this.metadata.keys()) calculateDepth(tableName),
\* from key i on
RECURSIVE CalculateDepthsFrom(_, _)
CalculateDepthsFrom(st, i) ==
  IF i > Len(st.md) THEN [status |-> "ok", value |-> 0, st |-> st]
  ELSE LET c == CalculateDepth(st, {}, st.md[i][1])
       IN IF c.status # "ok" THEN c ELSE CalculateDepthsFrom(c.st, i + 1)

\* AdvancedCrudManager._calculateDepthsRecursive: what it leaves in metadata
\* and depthCache, and how it ends.
CalculateDepthsRecursive(md, cache) ==
  LET r == CalculateDepthsFrom([md |-> md, cache |-> cache, visited |-> {}], 1)
  IN [status |-> r.status, md |-> r.st.md, cache |-> r.st.cache]

\* AdvancedCrudManager.define, whole: st is [md, cache]; a throw leaves what
\* was set before it.
AdvDefineAll(st, tableName, meta) ==
  LET r == CalculateDepthsRecursive(AdvDefine(st.md, tableName, meta), st.cache)
  IN [status |-> r.status, md |-> r.md, cache |-> r.cache]

\* AdvancedCrudManager._pkOf, for a name _normalize does not throw on
AdvPkOf(md, tableName) ==
  LET n == AdvNormalize(tableName)
  IN NullDefault(IF AdvHas(md, n) THEN Str(AdvGet(md, n).primaryKey) ELSE Undef, Str("id"))

\* JSON.stringify of a value and of a field map (an undefined value is left out)
JsonValue(v) ==
  IF IsNum(v) THEN ToString(v[2])
  ELSE IF IsStr(v) THEN "\"" \o v[2] \o "\""
  ELSE "null"

RECURSIVE JsonEntries(_, _, _)
JsonEntries(obj, i, first) ==
  IF i > Len(obj) THEN ""
  ELSE IF obj[i][2] = Undef THEN JsonEntries(obj, i + 1, first)
  ELSE (IF first THEN "" ELSE ",") \o "\"" \o obj[i][1] \o "\":" \o JsonValue(obj[i][2])
       \o JsonEntries(obj, i + 1, FALSE)

JsonStringify(obj) == "{" \o JsonEntries(obj, 1, TRUE) \o "}"

\* `${tableName}:${JSON.stringify(obj)}`
CacheKey(tableName, obj) == PropertyKey(tableName) \o ":" \o JsonStringify(obj)

\* One entry of the map over meta.foreignKeys: whether the read of the target
\* table throws (the table is undefined), and the code the entry gives if not.
CheckThrows(cat, fk, obj) == ~IsNullish(Lookup(obj, fk[1])) /\ ~HasTable(cat, fk[2])

CheckForeignKey(cat, md, fk, obj) ==
  LET val == Lookup(obj, fk[1])
      pk == AdvPkOf(md, Str(fk[2]))
  IN IF IsNullish(val) THEN Num(SUCCESS)
     ELSE Select(Plus(Len(DatabaseRead(cat, fk[2], << <<PropertyKey(pk), val>> >>)) > 0),
                 Num(SUCCESS), Num(FK_VIOLATION))

\* validationResults.reduce(...): the accumulator after entry i
RECURSIVE ReduceCodes(_, _)
ReduceCodes(codes, i) ==
  IF i = 0 THEN Num(SUCCESS)
  ELSE LET acc == ReduceCodes(codes, i - 1)
       IN Select(Plus(acc # Num(SUCCESS)), acc, codes[i])

\* AdvancedCrudManager._validateForeignKeysRecursive: "ok" with the code it
\* returns and the cache it leaves, or what it throws.
ValidateForeignKeysRecursive(cat, md, cache, tableName, obj) ==
  LET cacheKey == CacheKey(tableName, obj)
      fks == IF AdvHas(md, tableName) THEN AdvGet(md, tableName).foreignKeys ELSE <<>>
      codes == [k \in 1..Len(fks) |-> CheckForeignKey(cat, md, fks[k], obj)]
  IN IF \E e \in cache : e[1] = cacheKey
     THEN [status |-> "ok", code |-> (CHOOSE e \in cache : e[1] = cacheKey)[2], cache |-> cache]
     ELSE IF Len(fks) = 0
     THEN [status |-> "ok", code |-> SUCCESS, cache |-> cache \cup {<<cacheKey, SUCCESS>>}]
     ELSE IF \E k \in 1..Len(fks) : CheckThrows(cat, fks[k], obj)
     THEN [status |-> "TypeError", code |-> SUCCESS, cache |-> cache]
     ELSE LET code == ReduceCodes(codes, Len(codes))[2]
          IN [status |-> "ok", code |-> code, cache |-> cache \cup {<<cacheKey, code>>}]

Messages ==
  << "Success", "Foreign key constraint violation", "Null constraint violation",
     "Unique constraint violation", "Record not found" >>

\* AdvancedCrudManager._getValidationErrorMessage
GetValidationErrorMessage(code) ==
  Select(Plus(BoundedIndex(code, Len(Messages))[2] >= 0),
         IF code + 1 \in 1..Len(Messages) THEN Str(Messages[code + 1]) ELSE Undef,
         Str("Unknown validation error"))

\* The name of the failure a validation code stands for.
CodeStatus(code) == IF code = FK_VIOLATION THEN "ForeignKeyViolation" ELSE "ValidationError"

\* AdvancedCrudManager._executeCreate: an Error thrown for a validation code
\* carries the message as its value.
AdvCreate(cat, md, cache, tableName, obj) ==
  LET n == AdvNormalize(Str(tableName))
      v == ValidateForeignKeysRecursive(cat, md, cache, n, obj)
  IN IF v.status # "ok"
     THEN [status |-> v.status, tables |-> cat, cache |-> v.cache, value |-> Undef]
     ELSE IF v.code # SUCCESS
     THEN [status |-> CodeStatus(v.code), tables |-> cat, cache |-> v.cache,
           value |-> GetValidationErrorMessage(v.code)]
     ELSE IF NormalizeThrows(n)
     THEN [status |-> "TypeError", tables |-> cat, cache |-> v.cache, value |-> Undef]
     ELSE LET r == DatabaseCreate(cat, n[2], obj)
          IN [status |-> r.status, tables |-> r.tables, cache |-> v.cache, value |-> r.value]

\* AdvancedCrudManager._executeUpdate
AdvUpdate(cat, md, cache, tableName, id, updates) ==
  LET n == AdvNormalize(Str(tableName))
  IN IF NormalizeThrows(n)
     THEN [status |-> "TypeError", tables |-> cat, cache |-> cache, value |-> Undef]
     ELSE LET cleanUpdates == Without(updates, PropertyKey(AdvPkOf(md, n)))
              v == ValidateForeignKeysRecursive(cat, md, cache, n, cleanUpdates)
          IN IF v.status # "ok"
             THEN [status |-> v.status, tables |-> cat, cache |-> v.cache, value |-> Undef]
             ELSE IF v.code # SUCCESS
             THEN [status |-> CodeStatus(v.code), tables |-> cat, cache |-> v.cache,
                   value |-> GetValidationErrorMessage(v.code)]
             ELSE LET r == DatabaseUpdate(cat, n[2], id, cleanUpdates)
                  IN [status |-> r.status, tables |-> r.tables, cache |-> v.cache,
                      value |-> r.value]

\* Set.prototype.add on a Set kept as the list of its members in insertion order
SetAdd(members, x) ==
  IF \E i \in 1..Len(members) : members[i] = x THEN members ELSE Append(members, x)

RECURSIVE SetAddAll(_, _, _)
SetAddAll(members, xs, i) ==
  IF i > Len(xs) THEN members ELSE SetAddAll(SetAdd(members, xs[i]), xs, i + 1)

\* dependents.get(table) || new Set()
IdsOf(dependents, table) == IF AdvHas(dependents, table) THEN AdvGet(dependents, table) ELSE <<>>

\* The keys of metadata whose foreignKeys values include tableName
ChildTables(md, tableName) ==
  LET hits == SelectSeq(md, LAMBDA e :
                \E k \in 1..Len(e[2].foreignKeys) : Str(e[2].foreignKeys[k][2]) = tableName)
  IN [i \in 1..Len(hits) |-> hits[i][1]]

\* The columns of childTable whose declared target is tableName
ForeignKeyColumns(md, childTable, tableName) ==
  LET hits == SelectSeq(AdvGet(md, childTable).foreignKeys,
                        LAMBDA fk : Str(fk[2]) = tableName)
  IN [i \in 1..Len(hits) |-> hits[i][1]]

\* grandChildren.forEach((ids, table) => ...) from entry i on.  own holds the
\* existingIds Set of the column being processed, which is the Set the map
\* holds for childTable only when the map held one before the column began.
RECURSIVE MergeGrandChildren(_, _, _, _, _, _)
MergeGrandChildren(dependents, grand, i, childTable, inMap, own) ==
  IF i > Len(grand) THEN [dependents |-> dependents, own |-> own]
  ELSE LET table == grand[i][1]
           same == table = childTable /\ inMap
           existing == SetAddAll(IF same THEN own ELSE IdsOf(dependents, table), grand[i][2], 1)
       IN MergeGrandChildren(MapSet(dependents, table, existing), grand, i + 1, childTable,
                             inMap, IF same THEN existing ELSE own)

\* AdvancedCrudManager._getDependentRecordsRecursive and its three loops: over
\* childTables from i, over foreignKeyColumns from j, over childRows from k.
\* st is [status, dependents, visited]: "ok" or what was thrown, the Map of
\* the running call and the visited Set all calls share.
RECURSIVE GetDependentRecordsRecursive(_, _, _, _, _)
RECURSIVE OverChildTables(_, _, _, _, _, _, _)
RECURSIVE OverColumns(_, _, _, _, _, _, _, _)
RECURSIVE OverChildRows(_, _, _, _, _, _, _, _)
GetDependentRecordsRecursive(cat, md, tableName, id, visited) ==
  LET key == PropertyKey(tableName) \o ":" \o PropertyKey(id)
  IN IF key \in visited
     THEN [status |-> "ok", dependents |-> <<>>, visited |-> visited]
     ELSE OverChildTables(cat, md, tableName, id, ChildTables(md, tableName), 1,
                          [status |-> "ok", dependents |-> <<>>,
                           visited |-> visited \cup {key}])

OverChildTables(cat, md, tableName, id, childTables, i, st) ==
  IF i > Len(childTables) \/ st.status # "ok" THEN st
  ELSE OverChildTables(cat, md, tableName, id, childTables, i + 1,
         OverColumns(cat, md, tableName, id, childTables[i],
                     ForeignKeyColumns(md, childTables[i], tableName), 1, st))

OverColumns(cat, md, tableName, id, childTable, cols, j, st) ==
  IF j > Len(cols) \/ st.status # "ok" THEN st
  ELSE IF NormalizeThrows(childTable) \/ ~HasTable(cat, childTable[2])
  THEN [st EXCEPT !.status = "TypeError"]
  ELSE LET childRows == DatabaseRead(cat, childTable[2], << <<cols[j], id>> >>)
           inMap == AdvHas(st.dependents, childTable)
           r == OverChildRows(cat, md, childTable, childRows, 1, inMap,
                              IdsOf(st.dependents, childTable), st)
       IN IF Len(childRows) = 0
          THEN OverColumns(cat, md, tableName, id, childTable, cols, j + 1, st)
          ELSE IF r.st.status # "ok" THEN r.st
          ELSE OverColumns(cat, md, tableName, id, childTable, cols, j + 1,
                 [r.st EXCEPT !.dependents = MapSet(@, childTable, r.own)])

OverChildRows(cat, md, childTable, childRows, k, inMap, own, st) ==
  IF k > Len(childRows) \/ st.status # "ok" THEN [st |-> st, own |-> own]
  ELSE LET childId == childRows[k][1]
           added == SetAdd(own, childId)
           deps == IF inMap THEN MapSet(st.dependents, childTable, added) ELSE st.dependents
           g == GetDependentRecordsRecursive(cat, md, childTable, childId, st.visited)
           m == MergeGrandChildren(deps, g.dependents, 1, childTable, inMap, added)
       IN IF g.status # "ok"
          THEN [st |-> [status |-> g.status, dependents |-> deps, visited |-> g.visited],
                own |-> added]
          ELSE OverChildRows(cat, md, childTable, childRows, k + 1, inMap, m.own,
                 [status |-> "ok", dependents |-> m.dependents, visited |-> g.visited])

\* Array.prototype.sort with (a, b) => b.depth - a.depth, as an insertion of
\* entry e into a list already sorted: the sort is stable.
RECURSIVE InsertByDepth(_, _)
InsertByDepth(sorted, e) ==
  IF sorted = <<>> THEN <<e>>
  ELSE IF sorted[Len(sorted)].depth >= e.depth THEN Append(sorted, e)
  ELSE Append(InsertByDepth(SubSeq(sorted, 1, Len(sorted) - 1), e), sorted[Len(sorted)])

\* AdvancedCrudManager._sortByDepthDescending, entries 1..i of the Map sorted
RECURSIVE SortByDepthDescending(_, _, _)
SortByDepthDescending(md, dependents, i) ==
  IF i = 0 THEN <<>>
  ELSE InsertByDepth(SortByDepthDescending(md, dependents, i - 1),
         [table |-> dependents[i][1],
          depth |-> IF AdvHas(md, dependents[i][1]) THEN AdvGet(md, dependents[i][1]).depth
                    ELSE 0,
          ids |-> dependents[i][2]])

\* this.db.delete(table, id) for a table that is a JavaScript value; st is
\* [status, tables, order], order listing the (table, id) pairs handed to
\* Rows.delete so far.
DeleteOne(st, table, id) ==
  IF st.status # "ok" THEN st
  ELSE IF NormalizeThrows(table) \/ ~HasTable(st.tables, table[2])
  THEN [st EXCEPT !.status = "TypeError"]
  ELSE [status |-> "ok", tables |-> DatabaseDelete(st.tables, table[2], id).tables,
        order |-> Append(st.order, <<NormalizeName(table[2]), id>>)]

\* ids.forEach(id => this.db.delete(table, id)) from member k on
RECURSIVE DeleteIds(_, _, _, _)
DeleteIds(st, table, ids, k) ==
  IF k > Len(ids) THEN st ELSE DeleteIds(DeleteOne(st, table, ids[k]), table, ids, k + 1)

\* AdvancedCrudManager._cascadeDeleteRecursive from index on
RECURSIVE CascadeDeleteRecursive(_, _, _)
CascadeDeleteRecursive(st, sortedDependents, index) ==
  IF index > Len(sortedDependents) THEN st
  ELSE CascadeDeleteRecursive(
         DeleteIds(st, sortedDependents[index].table, sortedDependents[index].ids, 1),
         sortedDependents, index + 1)

\* AdvancedCrudManager._executeDelete: how it ends, the catalog it leaves,
\* the rows it deleted in order and the keys dependent discovery expanded.
AdvDelete(cat, md, tableName, id) ==
  LET n == AdvNormalize(Str(tableName))
      found == GetDependentRecordsRecursive(cat, md, n, id, {})
      start == [status |-> found.status, tables |-> cat, order |-> <<>>]
      cascaded == CascadeDeleteRecursive(start,
                    SortByDepthDescending(md, found.dependents, Len(found.dependents)), 1)
      done == DeleteOne(cascaded, n, id)
  IN [status |-> done.status, tables |-> done.tables, order |-> done.order,
      visited |-> found.visited]

\* AdvancedCrudManager._executeRead (readAll): the row objects, or what it
\* throws; tableName is a JavaScript value.
AdvExecuteRead(cat, tableName, filter) ==
  IF NormalizeThrows(tableName) THEN [status |-> "TypeError", value |-> <<>>]
  ELSE LET n == AdvNormalize(tableName)
       IN IF NormalizeThrows(n) \/ ~HasTable(cat, n[2])
          THEN [status |-> "TypeError", value |-> <<>>]
          ELSE [status |-> "ok", value |-> CrudReadAll(cat, n[2], filter)]

\* AdvancedCrudManager.get
AdvGetRow(cat, md, tableName, id) ==
  IF NormalizeThrows(tableName) THEN [status |-> "TypeError", value |-> Undef]
  ELSE LET pk == AdvPkOf(md, tableName)
           results == AdvExecuteRead(cat, tableName, << <<PropertyKey(pk), id>> >>)
       IN IF results.status # "ok" THEN [status |-> results.status, value |-> Undef]
          ELSE [status |-> "ok",
                value |-> Select(Plus(Len(results.value) > 0),
                                 IF Len(results.value) > 0 THEN results.value[1] ELSE Undef,
                                 Null)]

\* AdvancedCrudManager.getDisplayValueRecursive at depth 0.  A record get
\* returns is the number select gives, which has none of the fields looked
\* for, so the value falls through to 'Unknown'.
GetDisplayValueRecursive(cat, md, tableName, id) ==
  LET record == AdvGetRow(cat, md, tableName, id)
  IN IF record.status # "ok" THEN record
     ELSE IF record.value = Null THEN [status |-> "ok", value |-> Null]
     ELSE [status |-> "ok", value |-> Str("Unknown")]

\* The forEach over meta.foreignKeys in AdvancedCrudManager.resolveDisplay
\* from entry i on, writing to resolved.
RECURSIVE AdvResolveForeignKeys(_, _, _, _, _, _)
AdvResolveForeignKeys(cat, md, fks, rowObj, resolved, i) ==
  IF i > Len(fks) THEN [status |-> "ok", value |-> resolved]
  ELSE LET fkVal == Lookup(rowObj, fks[i][1])
           d == GetDisplayValueRecursive(cat, md, Str(fks[i][2]), fkVal)
       IN IF IsNullish(fkVal)
          THEN AdvResolveForeignKeys(cat, md, fks, rowObj, resolved, i + 1)
          ELSE IF d.status # "ok" THEN [status |-> d.status, value |-> resolved]
          ELSE AdvResolveForeignKeys(cat, md, fks, rowObj,
                 WithKey(resolved, fks[i][1] \o "_display", d.value), i + 1)

\* AdvancedCrudManager.resolveDisplay: resolved is a copy of rowObj.
AdvResolveDisplay(cat, md, tableName, rowObj) ==
  LET n == AdvNormalize(Str(tableName))
      fks == IF AdvHas(md, n) THEN AdvGet(md, n).foreignKeys ELSE <<>>
      r == AdvResolveForeignKeys(cat, md, fks, rowObj, rowObj, 1)
      d == GetDisplayValueRecursive(cat, md, n, Lookup(rowObj, "id"))
  IN IF r.status # "ok" THEN [status |-> r.status, out |-> Undef, obj |-> rowObj]
     ELSE IF d.status # "ok" THEN [status |-> d.status, out |-> Undef, obj |-> rowObj]
     ELSE [status |-> "ok", out |-> WithKey(r.value, "_display", d.value), obj |-> rowObj]

(***************************************************************************)
(* Calls on the Database facade.  Every call records in result what it was *)
(* given and how it ended; no call starts while a cascade delete runs.     *)
(***************************************************************************)
Idle == stack = <<>>

\* pre outside a cascade delete and the call after it.
NoCatalog == <<>>

Outcome(op, tableName, id, fields, status, value) ==
  [op |-> op, table |-> tableName, id |-> id, fields |-> fields,
   status |-> status, value |-> value]

\* The identities returned so far, with the one a successful create returns.
Returned(tableName, r) ==
  IF r.status = "ok"
  THEN [returned EXCEPT ![NormalizeName(tableName)] = Append(@, r.value)]
  ELSE returned

DbCreate(tableName, rowData) ==
  /\ Idle
  /\ HasTable(tables, tableName)
  /\ GetTable(tables, tableName).nextId <= MaxRowId
  /\ \E r \in {DatabaseCreate(tables, tableName, rowData)} :
        /\ tables' = r.tables
        /\ result' = Outcome("db.create", tableName, Undef, rowData, r.status, r.value)
        /\ returned' = Returned(tableName, r)
  /\ UNCHANGED <<held, views, depthCache, metadata, advMetadata, validationCache, stack, pre>>


DbDelete(tableName, id) ==
  /\ Idle
  /\ \E r \in {DatabaseDelete(tables, tableName, id)} :
        /\ tables' = r.tables
        /\ result' = Outcome("db.delete", tableName, id, <<>>, r.status, r.value)
  /\ UNCHANGED <<held, views, depthCache, metadata, advMetadata, validationCache, stack, pre, returned>>

\* What Rows.update(id, updates) on the table does to the arrays a caller
\* holds: row.data[idx] = updates[key] writes to the row's array, which a held
\* array is when it came from toArray(); row.data = oldData then gives the row
\* another array and leaves the written one with the caller.
HeldAfterUpdate(h, cat, tableName, id, updates, status) ==
  [k \in 1..Len(h) |->
     IF /\ h[k].shared
        /\ HasTable(cat, tableName)
        /\ h[k].table = NormalizeName(tableName)
        /\ h[k].id = id
        /\ RowsGet(GetTable(cat, tableName), id) # 0
     THEN [h[k] EXCEPT !.data = ApplyUpdates(GetTable(cat, tableName), @, updates),
                       !.shared = status # "UniqueViolation"]
     ELSE h[k]]

DbUpdate(tableName, id, updates) ==
  /\ Idle
  /\ \E r \in {DatabaseUpdate(tables, tableName, id, updates)} :
        /\ tables' = r.tables
        /\ held' = HeldAfterUpdate(held, tables, tableName, id, updates, r.status)
        /\ result' = Outcome("db.update", tableName, id, <<>>, r.status, r.value)
  /\ UNCHANGED <<views, depthCache, metadata, advMetadata, validationCache, stack, pre, returned>>

\* Tables.addTable(name, columns, unique)
AddTableCall(name, columns, unique) ==
  /\ Idle
  /\ \E r \in {AddTable(tables, name, columns, unique)} :
        /\ tables' = r.tables
        /\ result' = Outcome("tables.addTable", name, Undef, columns, r.status, Undef)
  /\ UNCHANGED <<held, views, depthCache, metadata, advMetadata, validationCache, stack, pre,
                 returned>>

\* Database.read(tableName, filter).toArray()
DbRead(tableName, filter) ==
  /\ Idle
  /\ HasTable(tables, tableName)
  /\ result' = Outcome("db.read", tableName, Undef, filter, "ok",
                       DatabaseRead(tables, tableName, filter))
  /\ UNCHANGED <<held, views, depthCache, tables, metadata, advMetadata, validationCache, stack, pre,
                 returned>>

\* Views.getView(name)
GetView(name) ==
  /\ Idle
  /\ \E r \in {ViewsGetView(tables, views, name)} :
        result' = Outcome("views.getView", name, Undef, <<>>, r.status, r.value)
  /\ UNCHANGED <<held, views, depthCache, tables, metadata, advMetadata, validationCache, stack, pre,
                 returned>>

\* A caller keeps what Database.read(tableName, filter).toArray() returned:
\* toArray gives row.data of each row found, the rows' own arrays.
KeepRead(tableName, filter) ==
  /\ Idle
  /\ HasTable(tables, tableName)
  /\ \E rows \in {DatabaseRead(tables, tableName, filter)} :
        /\ held' = [k \in 1..Len(rows) |->
                      [table |-> NormalizeName(tableName), id |-> rows[k][1],
                       shared |-> TRUE, data |-> rows[k]]]
        /\ result' = Outcome("db.read", tableName, Undef, filter, "ok", rows)
  /\ UNCHANGED <<views, depthCache, tables, metadata, advMetadata, validationCache, stack, pre,
                 returned>>

\* A caller keeps what crud.readAll(tableName, filter) returned: _rowToObject
\* builds a new object for each row.
KeepReadAll(tableName, filter) ==
  /\ Idle
  /\ HasTable(tables, tableName)
  /\ \E objs \in {CrudReadAll(tables, tableName, filter)} :
        /\ held' = [k \in 1..Len(objs) |->
                      [table |-> NormalizeName(tableName), id |-> Lookup(objs[k], "id"),
                       shared |-> FALSE, data |-> objs[k]]]
        /\ result' = Outcome("crud.readAll", tableName, Undef, filter, "ok", Undef)
  /\ UNCHANGED <<views, depthCache, tables, metadata, advMetadata, validationCache, stack, pre,
                 returned>>

\* A caller keeps what views.getView(name).toArray() returned: with no join
\* the Rowset holds the first table's rows themselves, with a join it holds
\* rows getData has built.
KeepView(name) ==
  /\ Idle
  /\ \E i \in 1..Len(views) : views[i][1] = name
  /\ \E r \in {ViewsGetView(tables, views, name)} :
        /\ r.status = "ok"
        /\ LET view == views[CHOOSE i \in 1..Len(views) : views[i][1] = name][2]
           IN held' = [k \in 1..Len(r.value.rows) |->
                         [table |-> NormalizeName(view.tableNames[1]),
                          id |-> r.value.rows[k][1],
                          shared |-> view.joins = <<>>, data |-> r.value.rows[k]]]
        /\ result' = Outcome("views.getView", name, Undef, <<>>, "ok", Undef)
  /\ UNCHANGED <<views, depthCache, tables, metadata, advMetadata, validationCache, stack, pre,
                 returned>>

(***************************************************************************)
(* Calls on CrudModule.Crud.  create and update run to completion in one   *)
(* step.  delete is recursive and deletes row by row: a call pushes a      *)
(* frame, and the running frame reads the next referencing column, calls   *)
(* itself for the next row read, or deletes its own row and returns.       *)
(***************************************************************************)
\* The engine ends a recursion that outgrows its call stack with a RangeError.
\* The model's stack holds more frames than the bounds allow rows to exist, so only
\* a recursion that comes back to a row it is already deleting outgrows it.
StackLimit == 2 * MaxCrudId + 1

Top == stack[Len(stack)]

\* The stack with its top frame replaced.
WithTop(frame) == [stack EXCEPT ![Len(stack)] = frame]

\* An exception nothing catches unwinds every frame.
Thrown(status) ==
  /\ stack' = <<>>
  /\ result' = [result EXCEPT !.status = status]

CrudCreateCall(tableName, obj) ==
  /\ Idle
  /\ HasTable(tables, tableName)
  /\ GetTable(tables, tableName).nextId <= MaxCrudId
  /\ \E r \in {CrudCreate(tables, metadata, tableName, obj)} :
        /\ tables' = r.tables
        /\ result' = Outcome("crud.create", tableName, Undef, obj, r.status, r.value)
  /\ pre' = NoCatalog
  /\ UNCHANGED <<held, views, depthCache, metadata, advMetadata, validationCache, stack, returned>>

CrudUpdateCall(tableName, id, updates) ==
  /\ Idle
  /\ \E r \in {CrudUpdate(tables, metadata, tableName, id, updates)} :
        /\ tables' = r.tables
        /\ held' = HeldAfterUpdate(held, tables, CrudNormalize(tableName), id,
                                   CleanUpdates(metadata, tableName, updates), r.status)
        /\ result' = Outcome("crud.update", tableName, id, updates, r.status, r.value)
  /\ pre' = NoCatalog
  /\ UNCHANGED <<views, depthCache, metadata, advMetadata, validationCache, stack, returned>>

CrudDeleteCall(tableName, id) ==
  /\ Idle
  /\ stack' = <<DeleteFrame(metadata, tableName, id)>>
  /\ pre' = tables
  /\ result' = Outcome("crud.delete", tableName, id, <<>>, "running", Undef)
  /\ UNCHANGED <<held, views, depthCache, tables, metadata, advMetadata, validationCache, returned>>

\* const rows = this.db.read(t, { [col]: id }).toArray()
CrudDeleteRead ==
  /\ ~Idle
  /\ Top.rows = <<>>
  /\ Top.pairs # <<>>
  /\ LET t == Head(Top.pairs)[1]
         col == Head(Top.pairs)[2]
     IN IF ~HasTable(tables, t)
        THEN Thrown("TypeError")
        ELSE /\ \E rows \in {DatabaseRead(tables, t, << <<col, Top.id>> >>)} :
                  stack' = WithTop([Top EXCEPT !.pairs = Tail(@), !.child = t,
                                               !.rows = [k \in 1..Len(rows) |-> rows[k][1]]])
             /\ UNCHANGED result
  /\ UNCHANGED <<held, views, depthCache, tables, metadata, advMetadata, validationCache, pre, returned>>

\* for (let r of rows) this.delete(t, r[0])
CrudDeleteRecurse ==
  /\ ~Idle
  /\ Top.rows # <<>>
  /\ IF Len(stack) >= StackLimit
     THEN Thrown("RangeError")
     ELSE /\ stack' = Append(WithTop([Top EXCEPT !.rows = Tail(@)]),
                             DeleteFrame(metadata, Top.child, Head(Top.rows)))
          /\ UNCHANGED result
  /\ UNCHANGED <<held, views, depthCache, tables, metadata, advMetadata, validationCache, pre, returned>>

\* this.db.delete(tableName, id), and the return
CrudDeleteRow ==
  /\ ~Idle
  /\ Top.rows = <<>>
  /\ Top.pairs = <<>>
  /\ \E r \in {DatabaseDelete(tables, Top.table, Top.id)} :
        /\ tables' = r.tables
        /\ IF r.status # "ok"
           THEN Thrown(r.status)
           ELSE /\ stack' = SubSeq(stack, 1, Len(stack) - 1)
                /\ result' = IF Len(stack) = 1 THEN [result EXCEPT !.status = "ok"]
                              ELSE result
  /\ UNCHANGED <<held, views, depthCache, metadata, advMetadata, validationCache, pre, returned>>

(***************************************************************************)
(* Calls on AdvancedCrudManager.                                           *)
(***************************************************************************)
AdvCreateCall(tableName, obj) ==
  /\ Idle
  /\ \E r \in {AdvCreate(tables, advMetadata, validationCache, tableName, obj)} :
        /\ tables' = r.tables
        /\ validationCache' = r.cache
        /\ result' = Outcome("adv.create", tableName, Undef, obj, r.status, r.value)
  /\ UNCHANGED <<held, views, depthCache, metadata, advMetadata, stack, pre, returned>>

AdvUpdateCall(tableName, id, updates) ==
  /\ Idle
  /\ \E r \in {AdvUpdate(tables, advMetadata, validationCache, tableName, id, updates)} :
        /\ tables' = r.tables
        /\ validationCache' = r.cache
        \* this.db.update is reached only when neither _normalize nor validation throws
        /\ held' = IF /\ ~NormalizeThrows(AdvNormalize(Str(tableName)))
                      /\ r.status \in {"ok", "UniqueViolation"}
                   THEN HeldAfterUpdate(held, tables, AdvNormalize(Str(tableName))[2], id,
                                        Without(updates, PropertyKey(AdvPkOf(advMetadata,
                                                  AdvNormalize(Str(tableName))))), r.status)
                   ELSE held
        /\ result' = Outcome("adv.update", tableName, id, updates, r.status, r.value)
  /\ UNCHANGED <<views, depthCache, metadata, advMetadata, stack, pre, returned>>

\* manager.delete(tableName, id): value holds the rows deleted, in order, and
\* the keys dependent discovery expanded.
AdvDeleteCall(tableName, id) ==
  /\ Idle
  /\ \E r \in {AdvDelete(tables, advMetadata, tableName, id)} :
        /\ tables' = r.tables
        /\ result' = Outcome("adv.delete", tableName, id, <<>>, r.status,
                             [order |-> r.order, visited |-> r.visited])
  /\ UNCHANGED <<held, views, depthCache, metadata, advMetadata, validationCache, stack, pre,
                 returned>>

\* manager.get(tableName, id)
AdvGetCall(tableName, id) ==
  /\ Idle
  /\ \E r \in {AdvGetRow(tables, advMetadata, Str(tableName), id)} :
        result' = Outcome("adv.get", tableName, id, <<>>, r.status, r.value)
  /\ UNCHANGED <<held, views, depthCache, tables, metadata, advMetadata, validationCache,
                 stack, pre, returned>>

\* crud.resolveDisplay(tableName, rowObj): value holds what was returned and
\* the object passed in as the call leaves it.
ResolveDisplayCall(tableName, rowObj) ==
  /\ Idle
  /\ \E r \in {ResolveDisplay(tables, metadata, tableName, rowObj)} :
        result' = Outcome("crud.resolveDisplay", tableName, Undef, rowObj, r.status,
                          [out |-> r.out, obj |-> r.obj])
  /\ UNCHANGED <<held, views, depthCache, tables, metadata, advMetadata, validationCache,
                 stack, pre, returned>>

\* manager.resolveDisplay(tableName, rowObj)
AdvResolveDisplayCall(tableName, rowObj) ==
  /\ Idle
  /\ \E r \in {AdvResolveDisplay(tables, advMetadata, tableName, rowObj)} :
        result' = Outcome("adv.resolveDisplay", tableName, Undef, rowObj, r.status,
                          [out |-> r.out, obj |-> r.obj])
  /\ UNCHANGED <<held, views, depthCache, tables, metadata, advMetadata, validationCache,
                 stack, pre, returned>>

\* The foreignKeys object of a declaration, as a field map.
Declared(meta) ==
  [k \in 1..Len(meta.foreignKeys) |-> <<meta.foreignKeys[k][1], Str(meta.foreignKeys[k][2])>>]

\* crud.define(tableName, meta)
CrudDefineCall(tableName, meta) ==
  /\ Idle
  /\ metadata' = CrudDefine(metadata, tableName, meta)
  /\ result' = Outcome("crud.define", tableName, Undef, Declared(meta), "ok", Undef)
  /\ pre' = NoCatalog
  /\ UNCHANGED <<held, views, depthCache, tables, advMetadata, validationCache, stack, returned>>

\* manager.define(tableName, meta)
AdvDefineCall(tableName, meta) ==
  /\ Idle
  /\ \E r \in {AdvDefineAll([md |-> advMetadata, cache |-> depthCache], tableName, meta)} :
        /\ advMetadata' = r.md
        /\ depthCache' = r.cache
        /\ result' = Outcome("adv.define", tableName, Undef, Declared(meta), r.status, Undef)
  /\ UNCHANGED <<held, views, tables, metadata, validationCache, stack, pre, returned>>

(***************************************************************************)
(* The raw store: one table T(id, x, y) declared with no unique            *)
(* constraint, one composite constraint or two single-column constraints,  *)
(* and written through Database.create / update / delete.                  *)
(***************************************************************************)
NoOutcome == Outcome("none", "", Undef, <<>>, "ok", Undef)

RowColumns == <<"id", "x", "y">>

UniqueChoices == { <<>>, << <<"x", "y">> >>, << <<"x">>, <<"y">> >> }

RowValues == {Num(1), Num(2)}

RowInputs ==
  {<<>>}
  \cup {<< <<"x", v>> >> : v \in RowValues}
  \cup {<< <<"y", v>> >> : v \in RowValues}
  \cup {<< <<"x", v>>, <<"y", w>> >> : v \in RowValues, w \in RowValues}
  \cup {<< <<"id", Num(2)>>, <<"x", Num(1)>> >>}

RowIds == {Num(n) : n \in 1..MaxRowId}

CrudIds == {Num(n) : n \in 1..MaxCrudId}

InitRows ==
  /\ \E u \in UniqueChoices : tables = AddTable(<<>>, "T", RowColumns, u).tables
  /\ metadata = <<>>
  /\ stack = <<>>
  /\ result = NoOutcome
  /\ pre = NoCatalog
  /\ returned = [t \in {"tblT"} |-> <<>>]
  /\ held = <<>>
  /\ advMetadata = <<>>
  /\ validationCache = {}
  /\ depthCache = <<>>
  /\ views = <<>>

NextRows ==
  \/ \E f \in RowInputs : DbCreate("T", f)
  \/ \E id \in RowIds, f \in RowInputs : DbUpdate("T", id, f)
  \/ \E id \in RowIds : DbDelete("T", id)

SpecRows == InitRows /\ [][NextRows]_vars

(***************************************************************************)
(* Claims about the raw store, checked under SpecRows.                     *)
(***************************************************************************)
\* The values row r holds in the columns of unique constraint i, as a list.
ConstraintTuple(tbl, r, i) ==
  [j \in 1..Len(tbl.unique[i]) |->
     LET idx == GetIndex(tbl.columns, tbl.unique[i][j])
     IN IF idx = 0 THEN Undef ELSE r[idx]]

LiveIds(tbl) == {tbl.data[p][1] : p \in 1..Len(tbl.data)}

\* What a call may not change when it is to leave the store alone.
Storage(tbl) == <<tbl.data, tbl.uniqueMaps>>

\* C1: for every table and every declared unique constraint, no two distinct
\* live rows hold the same tuple of values in the constraint's columns, after any
\* sequence of creates, updates and deletes, failed ones included.
C1_UniqueInvariant ==
  \A t \in DOMAIN tables :
    \A i \in 1..Len(tables[t].unique) :
      \A p, q \in 1..Len(tables[t].data) :
        p # q => ConstraintTuple(tables[t], tables[t].data[p], i)
                   # ConstraintTuple(tables[t], tables[t].data[q], i)

\* C7: a create that fails with a unique-constraint violation inserts no row and
\* leaves every unique index of the table with exactly the entries it had.
C7_FailedAddLeavesIndexes ==
  [][(result'.op = "db.create" /\ result'.status = "UniqueViolation")
       => \A t \in DOMAIN tables : Storage(tables'[t]) = Storage(tables[t])]_vars

\* C8: an update rejected with a unique-constraint violation is all-or-nothing:
\* the rows and every unique index of the table are as they were before the call.
C8_RejectedUpdateAllOrNothing ==
  [][(result'.op = "db.update" /\ result'.status = "UniqueViolation")
       => \A t \in DOMAIN tables : Storage(tables'[t]) = Storage(tables[t])]_vars

\* C9: within one table every successful create returns an identity strictly
\* greater than every identity the table returned before, so none is handed out
\* twice, whatever deletes and failed creates came in between.
C9_IdentitiesStrictlyIncrease ==
  \A t \in DOMAIN returned :
    \A i, j \in 1..Len(returned[t]) :
      i < j => returned[t][i][2] < returned[t][j][2]

\* C9's case: a second identity was returned after an earlier row was deleted
\* and after a failed create had consumed an identity.
C9_Witness ==
  \E t \in DOMAIN returned :
    /\ Len(returned[t]) >= 2
    /\ returned[t][1] \notin LiveIds(tables[t])
    /\ tables[t].nextId > Len(returned[t]) + 1
    /\ result.op = "db.create" /\ result.status = "ok"

\* C15: update(table, id, fields) and delete(table, id) with an id that has no
\* live row return without error and leave the table's rows, unique indexes and
\* next-identity counter as they were.
C15_MissingIdIsNoOp ==
  [][(/\ result'.op \in {"db.update", "db.delete"}
      /\ result'.id \notin LiveIds(GetTable(tables, result'.table)))
       => (result'.status = "ok" /\ tables' = tables)]_vars

\* An update or delete has just returned for an identity that was handed out
\* and deleted before, in a table that holds another row and index entries.
C15_Witness ==
  /\ result.op \in {"db.update", "db.delete"}
  /\ result.status = "ok"
  /\ result.id \notin LiveIds(tables["tblT"])
  /\ result.id \in {returned["tblT"][k] : k \in 1..Len(returned["tblT"])}
  /\ tables["tblT"].data # <<>>
  /\ tables["tblT"].unique # <<>>

(***************************************************************************)
(* Updates: the table T(id, x, y) of the raw store, created and deleted    *)
(* through the facade and updated through Crud.prototype.update (with no   *)
(* metadata defined), which hands the field map on to Rows.update.         *)
(***************************************************************************)
UpdateCreates ==
  { <<>>,
    << <<"x", Num(1)>>, <<"y", Num(2)>> >>,
    << <<"x", Num(2)>>, <<"y", Num(2)>> >> }

UpdateInputs ==
  { << <<"x", Num(1)>>, <<"y", Num(2)>> >>,
    << <<"x", Num(2)>> >>,
    << <<"id", Num(0)>>, <<"x", Num(2)>> >>,
    << <<"id", Num(2)>>, <<"y", Num(1)>> >> }

NextUpdate ==
  \/ \E f \in UpdateCreates : GetTable(tables, "T").nextId <= MaxCrudId /\ DbCreate("T", f)
  \/ \E id \in CrudIds, f \in UpdateInputs : CrudUpdateCall("T", id, f)
  \/ \E id \in CrudIds : DbDelete("T", id)

SpecUpdate == InitRows /\ [][NextUpdate]_vars

\* C14: a successful update(table, id, fields) changes only the non-identity
\* columns named in fields of the row with that id: identities, the row's other
\* columns and every other row stay as they were, also when fields names the
\* identity column.
C14_UpdateChangesOnlySuppliedColumns ==
  [][(result'.op = "crud.update" /\ result'.status = "ok") =>
       LET t == NormalizeName(result'.table)
           old == tables[t].data
           new == tables'[t].data
           cols == tables[t].columns
       IN /\ Len(new) = Len(old)
          /\ \A p \in 1..Len(old) :
               /\ new[p][1] = old[p][1]
               /\ \A i \in 2..Len(cols) :
                    new[p][i] = IF old[p][1] = result'.id /\ HasKey(result'.fields, cols[i])
                                THEN Lookup(result'.fields, cols[i])
                                ELSE old[p][i]]_vars

\* An update whose fields name the identity column, with another value than
\* the row's, has succeeded on a live row next to another live row.
C14_Witness ==
  /\ result.op = "crud.update"
  /\ result.status = "ok"
  /\ HasKey(result.fields, "id")
  /\ Lookup(result.fields, "id") # result.id
  /\ result.id \in LiveIds(tables["tblT"])
  /\ Len(tables["tblT"].data) = 2

\* The fields are the values the row with this id holds in x and y.
OwnValues(tbl, id, fields) ==
  \E p \in 1..Len(tbl.data) :
    /\ tbl.data[p][1] = id
    /\ fields = << <<"x", tbl.data[p][2]>>, <<"y", tbl.data[p][3]>> >>

\* C16: with a unique constraint on (x, y), an update of a live row to the
\* values it holds (x = 1, y = 2) succeeds without a unique violation and
\* leaves the rows and the unique index as they were.
C16_UpdateToOwnValuesSucceeds ==
  [][(/\ result'.op = "crud.update"
      /\ tables["tblT"].unique = << <<"x", "y">> >>
      /\ OwnValues(tables["tblT"], result'.id, result'.fields))
       => (result'.status = "ok" /\ Storage(tables'["tblT"]) = Storage(tables["tblT"]))]_vars

\* The row holding x = 1, y = 2 under the constraint on (x, y) has just been
\* updated to those values.
C16_Witness ==
  /\ result.op = "crud.update"
  /\ result.status = "ok"
  /\ tables["tblT"].unique = << <<"x", "y">> >>
  /\ result.fields = << <<"x", Num(1)>>, <<"y", Num(2)>> >>
  /\ \E p \in 1..Len(tables["tblT"].data) :
       tables["tblT"].data[p] = <<result.id, Num(1), Num(2)>>
  /\ tables["tblT"].uniqueMaps = << {"1::2"} >>

(***************************************************************************)
(* The catalog: tables declared and declared again under bare and prefixed *)
(* names while rows are created in them.                                   *)
(***************************************************************************)
CatalogNames == {"T", "tblT", "U"}

CatalogColumns == {<<"id", "x">>, <<"id">>, <<"x", "id">>, <<>>}

CatalogInputs == {<<>>, << <<"x", Num(1)>> >>}

InitCatalog ==
  /\ tables = <<>>
  /\ views = <<>>
  /\ metadata = <<>>
  /\ stack = <<>>
  /\ result = NoOutcome
  /\ pre = NoCatalog
  /\ returned = [t \in {"tblT", "tblU"} |-> <<>>]
  /\ held = <<>>
  /\ advMetadata = <<>>
  /\ validationCache = {}
  /\ depthCache = <<>>

NextCatalog ==
  \/ \E n \in CatalogNames, c \in CatalogColumns : AddTableCall(n, c, <<>>)
  \/ \E n \in CatalogNames, f \in CatalogInputs :
       /\ HasTable(tables, n)
       /\ Len(returned[NormalizeName(n)]) < MaxCrudId
       /\ DbCreate(n, f)

SpecCatalog == InitCatalog /\ [][NextCatalog]_vars

\* C17: declaring a table whose first column is not 'id' fails with an error
\* and leaves the catalog as it was: no table is added or replaced under that
\* name.
C17_BadDeclarationLeavesCatalog ==
  [][(result'.op = "tables.addTable" /\ ~FirstColumnIsId(result'.fields))
       => (result'.status = "Error" /\ tables' = tables)]_vars

\* A declaration with a first column other than 'id' has just failed for the
\* name of a table that holds rows.
C17_Witness ==
  /\ result.op = "tables.addTable"
  /\ result.status = "Error"
  /\ result.fields = <<"x", "id">>
  /\ HasTable(tables, result.table)
  /\ GetTable(tables, result.table).data # <<>>

(***************************************************************************)
(* Reads: tables A(id, x) and B(id, a_id) written through the facade, read *)
(* with Database.read and through the view AB joining A.id = B.a_id.       *)
(***************************************************************************)
ViewChoices ==
  AddView(<<>>, "AB", <<"A", "B">>,
          << [rightTable |-> "B", leftCol |-> "id", rightCol |-> "a_id"] >>)

AInputs == {<<>>, << <<"x", Num(1)>> >>}

BInputs == {<<>>, << <<"a_id", Num(1)>> >>, << <<"a_id", Num(2)>> >>}

BUpdates == {<< <<"a_id", Num(1)>> >>, << <<"a_id", Null>> >>}

BFilters ==
  { <<>>,
    << <<"a_id", Num(1)>> >>,
    << <<"a_id", Null>> >>,
    << <<"id", Num(2)>> >>,
    << <<"a_id", Num(1)>>, <<"id", Num(1)>> >>,
    << <<"nosuch", Num(1)>> >> }

InitView ==
  /\ tables = ViewCatalog
  /\ views = ViewChoices
  /\ metadata = <<>>
  /\ stack = <<>>
  /\ result = NoOutcome
  /\ pre = NoCatalog
  /\ returned = [t \in DOMAIN ViewCatalog |-> <<>>]
  /\ held = <<>>
  /\ advMetadata = <<>>
  /\ validationCache = {}
  /\ depthCache = <<>>

NextView ==
  \/ \E f \in AInputs : GetTable(tables, "A").nextId <= MaxCrudId /\ DbCreate("A", f)
  \/ \E f \in BInputs : GetTable(tables, "B").nextId <= MaxCrudId /\ DbCreate("B", f)
  \/ \E id \in CrudIds, f \in BUpdates : DbUpdate("B", id, f)
  \/ \E t \in {"A", "B"}, id \in CrudIds : DbDelete(t, id)
  \/ \E f \in BFilters : DbRead("B", f)
  \/ \E name \in {"AB", "none"} : GetView(name)

SpecView == InitView /\ [][NextView]_vars

\* The pairs (position in A, position in B) in left-major right-minor order.
PairsInOrder(cat) ==
  LET n == Len(cat["tblA"].data)
      m == Len(cat["tblB"].data)
  IN [k \in 1..(n * m) |-> <<((k - 1) \div m) + 1, ((k - 1) % m) + 1>>]

\* The join of the current rows: for every pair with a.id = b.a_id, a's values
\* followed by b's a_id.
JoinOfRows(cat) ==
  LET a == cat["tblA"].data
      b == cat["tblB"].data
      matched == SelectSeq(PairsInOrder(cat), LAMBDA e : a[e[1]][1] = b[e[2]][2])
  IN [k \in 1..Len(matched) |->
        <<a[matched[k][1]][1], a[matched[k][1]][2], b[matched[k][2]][2]>>]

\* C11: for A(id, x), B(id, a_id) and the view joining A.id = B.a_id, getData
\* returns one row for every pair (a, b) of live rows with a.id = b.a_id, made
\* of a's values followed by b's non-identity values, in left-major right-minor
\* order, and no row for an A row without a matching B row.
C11_JoinReturnsMatchingPairs ==
  (result.op = "views.getView" /\ result.table = "AB") =>
    /\ result.status = "ok"
    /\ result.value.rows = JoinOfRows(tables)
    /\ result.value.columns = <<"id", "x", "B.a_id">>

\* The view was read with one A row matched by two B rows and one A row
\* matched by none.
C11_Witness ==
  /\ result.op = "views.getView"
  /\ result.table = "AB"
  /\ Len(result.value.rows) = 2
  /\ result.value.rows[1][1] = result.value.rows[2][1]
  /\ Len(tables["tblA"].data) = 2

\* C12: a view holds no cached result: the getData that follows a create,
\* update or delete on the underlying tables returns the join of the rows the
\* tables hold after that write.
C12_ViewReadsCurrentRows ==
  [][(result'.op = "views.getView" /\ result'.table = "AB"
        /\ result.op \in {"db.create", "db.update", "db.delete"})
       => result'.value.rows = JoinOfRows(tables)]_vars

\* A read of the view returned rows: the tables were empty when the view was
\* added, so the read shows writes made since.
C12_Witness ==
  /\ result.op = "views.getView"
  /\ result.table = "AB"
  /\ result.value.rows # <<>>
  /\ \E p \in 1..Len(tables["tblB"].data) : tables["tblB"].data[p][1] = Num(2)

\* The row holds, in every column the filter names, the filter's value.
MatchesFilter(tbl, r, filter) ==
  \A k \in 1..Len(filter) :
    \A i \in 1..Len(tbl.columns) : tbl.columns[i] = filter[k][1] => r[i] = filter[k][2]

\* C13: find(table, filter) returns exactly the live rows that hold the
\* filter's value in every column the filter names, in insertion order (by
\* increasing identity); an empty filter returns all live rows.
C13_FindReturnsMatchingRows ==
  result.op = "db.read" =>
    LET tbl == GetTable(tables, result.table)
    IN /\ result.value = SelectSeq(tbl.data, LAMBDA r : MatchesFilter(tbl, r, result.fields))
       /\ \A i, j \in 1..Len(result.value) : i < j => result.value[i][1][2] < result.value[j][1][2]
       /\ result.fields = <<>> => result.value = tbl.data

\* A read filtered on the identity and on a_id returned one of two live rows.
C13_Witness ==
  /\ result.op = "db.read"
  /\ Len(result.fields) = 2
  /\ Len(result.value) = 1
  /\ Len(tables["tblB"].data) = 2

(***************************************************************************)
(* The integrity layer: tblPlayers(id, game_id) and                        *)
(* tblGames(id, player1_id, player2_id), with the metadata declared at     *)
(* startup in one of three ways: Games referencing Players; the two tables *)
(* referencing each other; Games referencing Players by its bare name.     *)
(***************************************************************************)
PlayersColumns == <<"id", "game_id">>

GamesColumns == <<"id", "player1_id", "player2_id">>

CrudCatalog ==
  AddTable(AddTable(<<>>, "tblPlayers", PlayersColumns, <<>>).tables,
           "tblGames", GamesColumns, <<>>).tables

PlayersMeta == [primaryKey |-> "id", foreignKeys |-> <<>>]

PlayersMetaCyclic == [primaryKey |-> "id", foreignKeys |-> << <<"game_id", "tblGames">> >>]

GamesMeta ==
  [primaryKey |-> "id",
   foreignKeys |-> << <<"player1_id", "tblPlayers">>, <<"player2_id", "tblPlayers">> >>]

GamesMetaBare ==
  [primaryKey |-> "id",
   foreignKeys |-> << <<"player1_id", "Players">>, <<"player2_id", "Players">> >>]

MetadataChoices ==
  { CrudDefine(CrudDefine(<<>>, "tblPlayers", PlayersMeta), "tblGames", GamesMeta),
    CrudDefine(CrudDefine(<<>>, "tblPlayers", PlayersMetaCyclic), "tblGames", GamesMeta),
    CrudDefine(CrudDefine(<<>>, "tblPlayers", PlayersMeta), "tblGames", GamesMetaBare) }

\* The field maps the calls are given.
PlayersInputs == {<<>>, << <<"game_id", Num(1)>> >>}

GamesInputs ==
  { <<>>,
    << <<"player1_id", Num(1)>> >>,
    << <<"player1_id", Num(2)>> >>,
    << <<"player1_id", Num(2)>>, <<"player2_id", Num(1)>> >> }

PlayersUpdates == {<< <<"game_id", Num(1)>> >>}

GamesUpdates == {<< <<"player1_id", Num(2)>> >>, << <<"player1_id", Null>> >>}

InitCrud ==
  /\ tables = CrudCatalog
  /\ metadata \in MetadataChoices
  /\ stack = <<>>
  /\ result = NoOutcome
  /\ pre = NoCatalog
  /\ returned = [t \in DOMAIN CrudCatalog |-> <<>>]
  /\ held = <<>>
  /\ advMetadata = <<>>
  /\ validationCache = {}
  /\ depthCache = <<>>
  /\ views = <<>>

NextCrud ==
  \/ \E f \in PlayersInputs : CrudCreateCall("tblPlayers", f)
  \/ \E f \in GamesInputs : CrudCreateCall("tblGames", f)
  \/ \E id \in CrudIds, f \in PlayersUpdates : CrudUpdateCall("tblPlayers", id, f)
  \/ \E id \in CrudIds, f \in GamesUpdates : CrudUpdateCall("tblGames", id, f)
  \/ \E t \in {"tblPlayers", "tblGames"}, id \in CrudIds : CrudDeleteCall(t, id)
  \/ CrudDeleteRead
  \/ CrudDeleteRecurse
  \/ CrudDeleteRow

SpecCrud == InitCrud /\ [][NextCrud]_vars

(***************************************************************************)
(* AdvancedCrudManager over the same two tables.  The declarations are     *)
(* passed to define in either order; metadata holds what was declared, as  *)
(* CrudModule.Crud keeps it.  The tables are filled through the facade.    *)
(***************************************************************************)
AdvMetadataChoices ==
  { <<CrudDefine(CrudDefine(<<>>, "tblPlayers", PlayersMeta), "tblGames", GamesMeta),
      AdvDefineAll(AdvDefineAll([md |-> <<>>, cache |-> <<>>], "tblPlayers", PlayersMeta),
                   "tblGames", GamesMeta)>>,
    <<CrudDefine(CrudDefine(<<>>, "tblGames", GamesMeta), "tblPlayers", PlayersMeta),
      AdvDefineAll(AdvDefineAll([md |-> <<>>, cache |-> <<>>], "tblGames", GamesMeta),
                   "tblPlayers", PlayersMeta)>> }

InitAdv ==
  /\ tables = CrudCatalog
  /\ \E m \in AdvMetadataChoices :
        metadata = m[1] /\ advMetadata = m[2].md /\ depthCache = m[2].cache
  /\ validationCache = {}
  /\ views = <<>>
  /\ stack = <<>>
  /\ result = NoOutcome
  /\ pre = NoCatalog
  /\ returned = [t \in DOMAIN CrudCatalog |-> <<>>]
  /\ held = <<>>

NextAdv ==
  \/ \E t \in {"tblPlayers", "tblGames"} :
       GetTable(tables, t).nextId <= MaxCrudId /\ DbCreate(t, <<>>)
  \/ \E t \in {"tblPlayers", "tblGames"}, id \in CrudIds : DbDelete(t, id)
  \/ \E f \in PlayersInputs : AdvCreateCall("tblPlayers", f)
  \/ \E f \in GamesInputs : AdvCreateCall("tblGames", f)
  \/ \E id \in CrudIds, f \in GamesUpdates : AdvUpdateCall("tblGames", id, f)

SpecAdv == InitAdv /\ [][NextAdv]_vars

(***************************************************************************)
(* Registration: the catalog holds tblPlayers and tblGames, no metadata is *)
(* registered at the start, and define is called on either manager with a  *)
(* declaration that fits the catalog, one that names a target table the    *)
(* catalog does not hold, or one that names a column tblGames does not     *)
(* have.  Rows are created and deleted through CrudModule.Crud.            *)
(***************************************************************************)
GamesMetaNoTable ==
  [primaryKey |-> "id", foreignKeys |-> << <<"player1_id", "tblTeams">> >>]

GamesMetaNoColumn ==
  [primaryKey |-> "id", foreignKeys |-> << <<"team_id", "tblPlayers">> >>]

DefineChoices ==
  { <<"tblPlayers", PlayersMeta>>, <<"tblGames", GamesMeta>>,
    <<"tblGames", GamesMetaNoTable>>, <<"tblGames", GamesMetaNoColumn>> }

DefineInputs == { <<>>, << <<"player1_id", Num(1)>> >> }

InitDefine ==
  /\ tables = CrudCatalog
  /\ metadata = <<>>
  /\ advMetadata = <<>>
  /\ depthCache = <<>>
  /\ validationCache = {}
  /\ views = <<>>
  /\ stack = <<>>
  /\ result = NoOutcome
  /\ pre = NoCatalog
  /\ returned = [t \in DOMAIN CrudCatalog |-> <<>>]
  /\ held = <<>>

NextDefine ==
  \/ \E d \in DefineChoices : CrudDefineCall(d[1], d[2])
  \/ \E d \in DefineChoices : AdvDefineCall(d[1], d[2])
  \/ CrudCreateCall("tblPlayers", <<>>)
  \/ \E f \in DefineInputs : CrudCreateCall("tblGames", f)
  \/ \E t \in {"tblPlayers", "tblGames"}, id \in CrudIds : CrudDeleteCall(t, id)
  \/ CrudDeleteRead
  \/ CrudDeleteRecurse
  \/ CrudDeleteRow

SpecDefine == InitDefine /\ [][NextDefine]_vars

\* The declaration names a target table the catalog does not hold, or a
\* foreign-key column its table's schema does not have.
BadDeclaration(cat, tableName, declared) ==
  \E k \in 1..Len(declared) :
    \/ ~HasTable(cat, declared[k][2][2])
    \/ GetIndex(GetTable(cat, tableName).columns, declared[k][1]) = 0

\* Every (child table, column) pair a frame of a cascade delete has still to
\* read names a table of the catalog and a column of that table.
CascadeReadsDeclaredColumns(cat, frames) ==
  \A i \in 1..Len(frames) : \A k \in 1..Len(frames[i].pairs) :
    /\ HasTable(cat, frames[i].pairs[k][1])
    /\ GetIndex(GetTable(cat, frames[i].pairs[k][1]).columns, frames[i].pairs[k][2]) # 0

\* C19: define with a declaration that names a foreign-key target table absent
\* from the catalog, or a foreign-key column absent from its table's schema,
\* fails with a configuration error and stores nothing, so no cascade delete
\* ever reads through such a declaration.
C19_BadDeclarationRejectedAtDefine ==
  [][/\ (result'.op \in {"crud.define", "adv.define"}
         /\ BadDeclaration(tables, result'.table, result'.fields))
        => (/\ result'.status = "ConfigurationError"
            /\ metadata' = metadata
            /\ advMetadata' = advMetadata)
     /\ CascadeReadsDeclaredColumns(tables', stack')]_vars

(***************************************************************************)
(* Cyclic declarations: the same two tables, with the declarations passed  *)
(* to AdvancedCrudManager.define at startup forming a cycle (the tables    *)
(* referencing each other, declared in either order, or tblPlayers         *)
(* referencing itself); metadata holds what was declared.  A table may be  *)
(* declared again with the declaration it was given.                       *)
(***************************************************************************)
PlayersMetaSelf == [primaryKey |-> "id", foreignKeys |-> << <<"game_id", "tblPlayers">> >>]

CycleChoices ==
  { <<CrudDefine(CrudDefine(<<>>, "tblPlayers", PlayersMetaCyclic), "tblGames", GamesMeta),
      AdvDefineAll(AdvDefineAll([md |-> <<>>, cache |-> <<>>], "tblPlayers", PlayersMetaCyclic),
                   "tblGames", GamesMeta)>>,
    <<CrudDefine(CrudDefine(<<>>, "tblGames", GamesMeta), "tblPlayers", PlayersMetaCyclic),
      AdvDefineAll(AdvDefineAll([md |-> <<>>, cache |-> <<>>], "tblGames", GamesMeta),
                   "tblPlayers", PlayersMetaCyclic)>>,
    <<CrudDefine(CrudDefine(<<>>, "tblPlayers", PlayersMetaSelf), "tblGames", GamesMeta),
      AdvDefineAll(AdvDefineAll([md |-> <<>>, cache |-> <<>>], "tblPlayers", PlayersMetaSelf),
                   "tblGames", GamesMeta)>> }

InitCycle ==
  /\ tables = CrudCatalog
  /\ \E m \in CycleChoices :
        metadata = m[1] /\ advMetadata = m[2].md /\ depthCache = m[2].cache
  /\ validationCache = {}
  /\ views = <<>>
  /\ stack = <<>>
  /\ result = NoOutcome
  /\ pre = NoCatalog
  /\ returned = [t \in DOMAIN CrudCatalog |-> <<>>]
  /\ held = <<>>

NextCycle ==
  \/ \E t \in {"tblPlayers", "tblGames"} : AdvDefineCall(t, MetaOf(metadata, t))
  \/ \E t \in {"tblPlayers", "tblGames"} :
       GetTable(tables, t).nextId <= MaxCrudId /\ DbCreate(t, <<>>)
  \/ \E t \in {"tblPlayers", "tblGames"}, id \in CrudIds : DbDelete(t, id)
  \/ AdvCreateCall("tblPlayers", <<>>)
  \/ \E f \in DefineInputs : AdvCreateCall("tblGames", f)

SpecCycle == InitCycle /\ [][NextCycle]_vars

\* The tables the declaration of t names as foreign-key targets.
Targets(md, t) ==
  {NormalizeName(MetaOf(md, t).foreignKeys[k][2]) : k \in 1..Len(MetaOf(md, t).foreignKeys)}

\* The tables reached from the tables of S in at most n steps of the
\* foreign-key graph.
RECURSIVE ReachedFrom(_, _, _)
ReachedFrom(md, S, n) ==
  IF n = 0 THEN S
  ELSE ReachedFrom(md, S \cup UNION {Targets(md, u) : u \in S}, n - 1)

\* Table t lies on a cycle of the declared foreign-key graph.
OnCycle(md, t) == t \in ReachedFrom(md, Targets(md, t), Len(md))

(***************************************************************************)
(* Validation: both managers over the same two tables, declared as in      *)
(* SpecAdv, with field maps that leave the foreign-key columns out, give   *)
(* them null, or give them a value; tblPlayers is filled and emptied       *)
(* while the calls are made.                                               *)
(***************************************************************************)
ValidateInputs ==
  { <<>>,
    << <<"player1_id", Null>> >>,
    << <<"player1_id", Num(1)>> >>,
    << <<"player1_id", Null>>, <<"player2_id", Num(1)>> >> }

NextValidate ==
  \/ CrudCreateCall("tblPlayers", <<>>)
  \/ \E f \in ValidateInputs : CrudCreateCall("tblGames", f)
  \/ \E id \in CrudIds, f \in ValidateInputs : CrudUpdateCall("tblGames", id, f)
  \/ \E f \in ValidateInputs : AdvCreateCall("tblGames", f)
  \/ \E id \in CrudIds, f \in ValidateInputs : AdvUpdateCall("tblGames", id, f)
  \/ \E id \in CrudIds : DbDelete("tblPlayers", id)

SpecValidate == InitAdv /\ [][NextValidate]_vars

(***************************************************************************)
(* Display: the two tables declared with display fields on both managers,  *)
(* filled and emptied through Crud and the facade, and resolveDisplay      *)
(* called with row objects of either table.                                *)
(***************************************************************************)
PlayersMetaDisplay ==
  [primaryKey |-> "id", foreignKeys |-> <<>>, displayField |-> "id"]

GamesMetaDisplay ==
  [primaryKey |-> "id",
   foreignKeys |-> << <<"player1_id", "tblPlayers">>, <<"player2_id", "tblPlayers">> >>,
   displayField |-> "player1_id + player2_id"]

DisplayRows ==
  { <<"tblPlayers", << <<"id", Num(1)>>, <<"game_id", Null>> >> >>,
    <<"tblGames", << <<"id", Num(1)>>, <<"player1_id", Num(1)>>, <<"player2_id", Null>> >> >>,
    <<"tblGames", << <<"id", Num(2)>>, <<"player1_id", Num(2)>>, <<"player2_id", Num(1)>> >> >> }

InitDisplay ==
  /\ tables = CrudCatalog
  /\ metadata = CrudDefine(CrudDefine(<<>>, "tblPlayers", PlayersMetaDisplay),
                           "tblGames", GamesMetaDisplay)
  /\ \E m \in {AdvDefineAll(AdvDefineAll([md |-> <<>>, cache |-> <<>>],
                                          "tblPlayers", PlayersMetaDisplay),
                             "tblGames", GamesMetaDisplay)} :
        advMetadata = m.md /\ depthCache = m.cache
  /\ validationCache = {}
  /\ views = <<>>
  /\ stack = <<>>
  /\ result = NoOutcome
  /\ pre = NoCatalog
  /\ returned = [t \in DOMAIN CrudCatalog |-> <<>>]
  /\ held = <<>>

NextDisplay ==
  \/ \E f \in PlayersInputs : CrudCreateCall("tblPlayers", f)
  \/ \E f \in GamesInputs : CrudCreateCall("tblGames", f)
  \/ \E t \in {"tblPlayers", "tblGames"}, id \in CrudIds : DbDelete(t, id)
  \/ \E d \in DisplayRows : ResolveDisplayCall(d[1], d[2])
  \/ \E d \in DisplayRows : AdvResolveDisplayCall(d[1], d[2])

SpecDisplay == InitDisplay /\ [][NextDisplay]_vars

(***************************************************************************)
(* Kept results: the table T(id, x, y) of the raw store with a view over   *)
(* it alone, written through the facade while a caller keeps the result    *)
(* of a read.                                                              *)
(***************************************************************************)
KeepFilters == {<<>>, << <<"x", Num(1)>> >>}

InitKeep ==
  /\ \E u \in UniqueChoices : tables = AddTable(<<>>, "T", RowColumns, u).tables
  /\ views = AddView(<<>>, "all", <<"T">>, <<>>)
  /\ metadata = <<>>
  /\ stack = <<>>
  /\ result = NoOutcome
  /\ pre = NoCatalog
  /\ returned = [t \in {"tblT"} |-> <<>>]
  /\ held = <<>>
  /\ advMetadata = <<>>
  /\ validationCache = {}
  /\ depthCache = <<>>

NextKeep ==
  \/ \E f \in UpdateCreates : GetTable(tables, "T").nextId <= MaxCrudId /\ DbCreate("T", f)
  \/ \E id \in CrudIds, f \in UpdateInputs : DbUpdate("T", id, f)
  \/ \E id \in CrudIds : DbDelete("T", id)
  \/ \E f \in KeepFilters : KeepRead("T", f)
  \/ \E f \in KeepFilters : KeepReadAll("T", f)
  \/ KeepView("all")

SpecKeep == InitKeep /\ [][NextKeep]_vars

(***************************************************************************)
(* Claims about the integrity layer, checked under SpecCrud.               *)
(***************************************************************************)
Rows(cat, t) == {cat[t].data[p] : p \in 1..Len(cat[t].data)}

\* Row r of table c holds id in a column that c's metadata declares a foreign
\* key to table t (named bare or prefixed).
References(cat, md, c, r, t, id) ==
  \E k \in 1..Len(MetaOf(md, c).foreignKeys) :
    LET fk == MetaOf(md, c).foreignKeys[k]
        idx == GetIndex(cat[c].columns, fk[1])
    IN NormalizeName(fk[2]) = t /\ idx > 0 /\ r[idx] = id

\* The rows of cat that reference a row of the set S of <<table, id>> pairs.
Referencing(cat, md, S) ==
  {<<c, r[1]>> : c \in DOMAIN cat, r \in UNION {Rows(cat, d) : d \in DOMAIN cat}}
  \cap {cr \in UNION {{<<c, r[1]>> : r \in Rows(cat, c)} : c \in DOMAIN cat} :
          \E r \in Rows(cat, cr[1]) :
            r[1] = cr[2] /\ \E s \in S : References(cat, md, cr[1], r, s[1], s[2])}

\* S with every row that depends on it, directly or transitively.
RECURSIVE Dependents(_, _, _)
Dependents(cat, md, S) ==
  IF Referencing(cat, md, S) \subseteq S THEN S
  ELSE Dependents(cat, md, S \cup Referencing(cat, md, S))

DeleteReturned == result.op = "crud.delete" /\ result.status = "ok"

\* C2: a validated delete removes the root row and every row that references it
\* directly or transitively through declared foreign-key columns, and no other
\* row: when it returns, each table holds the rows it held before that are not
\* among the root and its dependents.
C2_CascadeRemovesExactlyDependents ==
  DeleteReturned =>
    \A t \in DOMAIN tables :
      tables[t].data =
        SelectSeq(pre[t].data,
                  LAMBDA r : <<t, r[1]>> \notin
                    Dependents(pre, metadata, {<<NormalizeName(result.table), result.id>>}))

\* C3: a validated delete of a row of a foreign-key cycle terminates: its
\* recursion does not go on until the call stack is exhausted.
C3_CascadeTerminatesOnCycles == result.status # "RangeError"

\* C4: at the moment a cascade delete removes a row, no row that is still live
\* holds a declared foreign-key value referencing it: children go before the
\* parents they reference.
C4_ChildrenRemovedBeforeParents ==
  [][~Idle =>
       \A t \in DOMAIN tables :
         \A id \in LiveIds(tables[t]) \ LiveIds(tables'[t]) :
           \A c \in DOMAIN tables :
             \A r \in Rows(tables', c) : ~References(tables', metadata, c, r, t, id)]_vars

\* The metadata with every foreign-key target written with the 'tbl' prefix.
PrefixedMetadata(md) ==
  [i \in 1..Len(md) |->
     <<md[i][1],
       [md[i][2] EXCEPT !.foreignKeys =
          [k \in 1..Len(@) |-> <<@[k][1], NormalizeName(@[k][2])>>]]>>]

\* The name without its 'tbl' prefix.
BareName(name) == SubSeq(name, 4, Len(name))

\* The (child table, identity) pairs the loops of Crud.prototype.delete(t, id)
\* read in this catalog under the metadata md.
RowsRead(cat, md, t, id) ==
  LET pairs == ReferencingPairs(md, CrudNormalize(t), 1)
  IN UNION { { <<pairs[k][1], r[1]>> :
               r \in {DatabaseRead(cat, pairs[k][1], << <<pairs[k][2], id>> >>)[q] :
                        q \in 1..Len(DatabaseRead(cat, pairs[k][1],
                                                  << <<pairs[k][2], id>> >>))} } :
             k \in 1..Len(pairs) }

\* C18: bare and prefixed table names are interchangeable: every facade and
\* integrity operation gives the same result and effect for n and 'tbl' + n,
\* and a cascade delete finds the same dependents whether the foreign-key
\* targets were declared bare or prefixed.
C18_BareAndPrefixedNamesAgree ==
  \A t \in DOMAIN tables :
    /\ HasTable(tables, BareName(t))
    /\ GetTable(tables, BareName(t)) = GetTable(tables, t)
    /\ \A id \in CrudIds :
         /\ CrudGet(tables, metadata, BareName(t), id) = CrudGet(tables, metadata, t, id)
         /\ DatabaseDelete(tables, BareName(t), id) = DatabaseDelete(tables, t, id)
         /\ DeleteFrame(metadata, BareName(t), id) = DeleteFrame(metadata, t, id)
         /\ RowsRead(tables, metadata, t, id)
              = RowsRead(tables, PrefixedMetadata(metadata), t, id)
    /\ \A f \in PlayersInputs \cup GamesInputs :
         /\ CrudCreate(tables, metadata, BareName(t), f) = CrudCreate(tables, metadata, t, f)
         /\ CrudCreate(tables, PrefixedMetadata(metadata), t, f)
              = CrudCreate(tables, metadata, t, f)

\* The field map gives a declared foreign-key column of the table a non-null
\* value that is the primary key of no row of the target table.
DanglingForeignKey(cat, md, tableName, obj) ==
  \E k \in 1..Len(MetaOf(md, NormalizeName(tableName)).foreignKeys) :
    LET fk == MetaOf(md, NormalizeName(tableName)).foreignKeys[k]
        val == Lookup(obj, fk[1])
        target == GetTable(cat, fk[2])
        pkIdx == GetIndex(target.columns, PkOf(md, fk[2]))
    IN /\ ~IsNullish(val)
       /\ \A r \in Rows(cat, NormalizeName(fk[2])) : r[pkIdx] # val

\* C5: a validated create whose field map holds a dangling foreign key fails
\* with a foreign-key violation and changes nothing in the store: rows, unique
\* indexes and next-identity counters of every table stay as they were.
C5_CreateRejectsDanglingForeignKey ==
  [][(result'.op \in {"crud.create", "adv.create"}
        /\ DanglingForeignKey(tables, metadata, result'.table, result'.fields))
       => (result'.status = "ForeignKeyViolation" /\ tables' = tables)]_vars

\* C6: a validated update of a live row whose field map holds a dangling foreign
\* key fails with a foreign-key violation before any storage mutation, leaving
\* the row as it was: update validates foreign keys as create does.
C6_UpdateRejectsDanglingForeignKey ==
  [][(/\ result'.op \in {"crud.update", "adv.update"}
      /\ result'.id \in LiveIds(GetTable(tables, result'.table))
      /\ DanglingForeignKey(tables, metadata, result'.table, result'.fields))
       => (result'.status = "ForeignKeyViolation" /\ tables' = tables)]_vars

\* C20: declarations whose foreign-key graph has a cycle are accepted by define
\* without error, and the manager stays usable for the tables on the cycle: a
\* create there whose foreign keys are null or name live rows succeeds and
\* stores its row.
C20_CyclicMetadataAcceptedAndUsable ==
  [][/\ (result'.op = "adv.define" /\ OnCycle(metadata, NormalizeName(result'.table)))
        => result'.status = "ok"
     /\ (/\ result'.op = "adv.create"
         /\ OnCycle(metadata, NormalizeName(result'.table))
         /\ ~DanglingForeignKey(tables, metadata, result'.table, result'.fields))
        => (/\ result'.status = "ok"
            /\ RowsGet(GetTable(tables', result'.table), result'.value) # 0)]_vars

\* C10: after a successful create(table, fields) returning id, get(table, id)
\* (Rows.get on the store, Crud.get on the integrity layer) yields a row whose
\* identity is id, whose non-identity columns named in fields hold the supplied
\* values and whose other columns are null.
C10_CreateThenGetRoundTrip ==
  (result.op \in {"db.create", "crud.create"} /\ result.status = "ok") =>
    LET tbl == GetTable(tables, result.table)
        p == RowsGet(tbl, result.value)
        got == CrudGet(tables, metadata, result.table, result.value)
    IN /\ p # 0
       /\ got # Null
       /\ tbl.data[p][1] = result.value
       /\ Lookup(got, "id") = result.value
       /\ \A i \in 2..Len(tbl.columns) :
            LET expected == IF HasKey(result.fields, tbl.columns[i])
                            THEN Lookup(result.fields, tbl.columns[i])
                            ELSE Null
            IN tbl.data[p][i] = expected /\ Lookup(got, tbl.columns[i]) = expected

\* A create given an id of its own and no value for y has just returned
\* another identity.
C10_Witness ==
  /\ result.op = "db.create"
  /\ result.status = "ok"
  /\ HasKey(result.fields, "id")
  /\ Lookup(result.fields, "id") # result.value
  /\ HasKey(result.fields, "x")
  /\ ~HasKey(result.fields, "y")

\* Every foreign-key column the table's declaration names is null in the field
\* map or absent from it.
ForeignKeysAllNull(md, tableName, obj) ==
  \A k \in 1..Len(MetaOf(md, NormalizeName(tableName)).foreignKeys) :
    IsNullish(Lookup(obj, MetaOf(md, NormalizeName(tableName)).foreignKeys[k][1]))

\* C21: a validated create or update whose declared foreign-key columns are all
\* null or absent never fails foreign-key validation, whatever the target
\* tables hold: on Crud the call goes on to the facade's create or update and
\* has its effect.
C21_NullForeignKeysAlwaysValid ==
  [][(/\ result'.op \in {"crud.create", "crud.update", "adv.create", "adv.update"}
      /\ ForeignKeysAllNull(metadata, result'.table, result'.fields))
       => (/\ result'.status # "ForeignKeyViolation"
           /\ result'.op = "crud.create"
                => tables' = DatabaseCreate(tables, result'.table, result'.fields).tables
           /\ result'.op = "crud.update"
                => tables' = DatabaseUpdate(tables, result'.table, result'.id,
                                            result'.fields).tables)]_vars

\* A create on tblGames with player1_id null has just succeeded while
\* tblPlayers holds no row.
C21_Witness ==
  /\ result.op = "crud.create"
  /\ result.table = "tblGames"
  /\ result.fields = << <<"player1_id", Null>> >>
  /\ result.status = "ok"
  /\ Rows(tables, "tblPlayers") = {}
  /\ Rows(tables, "tblGames") # {}

\* C22: resolveDisplay mutates nothing: the rows, unique indexes and identity
\* counters of every table, and the row object passed in, are after the call
\* what they were before it.
C22_ResolveDisplayMutatesNothing ==
  [][result'.op \in {"crud.resolveDisplay", "adv.resolveDisplay"}
       => (tables' = tables /\ result'.value.obj = result'.fields)]_vars

\* resolveDisplay has just returned a copy of a tblGames row that holds the
\* display value of the player the row references.
C22_Witness ==
  /\ result.op = "crud.resolveDisplay"
  /\ result.status = "ok"
  /\ Lookup(result.value.out, "player1_id_display") = Num(1)
  /\ ~HasKey(result.fields, "player1_id_display")

\* C23: every read returns a snapshot: an update or delete on the store made
\* after a read returned changes none of the values the kept result holds.
C23_ReadsReturnSnapshots ==
  [][result'.op \in {"db.update", "db.delete", "crud.update"}
       => (/\ Len(held') = Len(held)
           /\ \A k \in 1..Len(held) : held'[k].data = held[k].data)]_vars

KeyInputs ==
  { << <<"x", Str("a::b")>>, <<"y", Str("c")>> >>,
    << <<"x", Str("a")>>, <<"y", Str("b::c")>> >>,
    << <<"x", Null>>, <<"y", Str("c")>> >>,
    << <<"x", Str("")>>, <<"y", Str("c")>> >>,
    << <<"x", Num(1)>>, <<"y", Str("c")>> >>,
    << <<"x", Str("1")>>, <<"y", Str("c")>> >> }

KeyUpdates ==
  { << <<"x", Str("a")>>, <<"y", Str("b::c")>> >>,
    << <<"x", Str("")>> >>,
    << <<"x", Str("1")>> >> }

InitKeys ==
  /\ tables = AddTable(<<>>, "T", RowColumns, << <<"x", "y">> >>).tables
  /\ metadata = <<>>
  /\ stack = <<>>
  /\ result = NoOutcome
  /\ pre = NoCatalog
  /\ returned = [t \in {"tblT"} |-> <<>>]
  /\ held = <<>>
  /\ advMetadata = <<>>
  /\ validationCache = {}
  /\ depthCache = <<>>
  /\ views = <<>>

NextKeys ==
  \/ \E f \in KeyInputs : DbCreate("T", f)
  \/ \E id \in RowIds, f \in KeyUpdates : CrudUpdateCall("T", id, f)
  \/ \E id \in RowIds : DbDelete("T", id)

SpecKeys == InitKeys /\ [][NextKeys]_vars

\* The row a create or an update asks the table to hold.
AskedRow(tbl, op, id, fields) ==
  IF op = "db.create" THEN FillRow(tbl, fields)
  ELSE ApplyUpdates(tbl, tbl.data[RowsGet(tbl, id)], fields)

\* C25: create and update raise a unique violation only when another live row
\* holds the same tuple of values in the constraint's columns; rows whose tuples
\* differ are both accepted, also when the values hold the key delimiter or
\* differ only in type.
C25_ViolationOnlyOnEqualTuple ==
  [][(/\ result'.op \in {"db.create", "crud.update"}
      /\ result'.status = "UniqueViolation")
       => LET tbl == GetTable(tables, result'.table)
              asked == AskedRow(tbl, result'.op, result'.id, result'.fields)
          IN \E i \in 1..Len(tbl.unique) :
               \E p \in 1..Len(tbl.data) :
                 /\ result'.op = "crud.update" => tbl.data[p][1] # result'.id
                 /\ ConstraintTuple(tbl, tbl.data[p], i) = ConstraintTuple(tbl, asked, i)]_vars

(***************************************************************************)
(* DatabaseDriver.loadFromText                                             *)
(***************************************************************************)
\* String.prototype.split for a separator of one character
RECURSIVE SplitOn(_, _, _, _)
SplitOn(str, sep, i, cur) ==
  IF i > Len(str) THEN <<cur>>
  ELSE IF SubSeq(str, i, i) = sep THEN <<cur>> \o SplitOn(str, sep, i + 1, "")
  ELSE SplitOn(str, sep, i + 1, cur \o SubSeq(str, i, i))

Split(str, sep) == SplitOn(str, sep, 1, "")

StartsWith(str, prefix) ==
  Len(str) >= Len(prefix) /\ SubSeq(str, 1, Len(prefix)) = prefix

Includes(str, ch) == \E i \in 1..Len(str) : SubSeq(str, i, i) = ch

IsDigit(ch) == \E d \in 0..9 : ToString(d) = ch

DigitOf(ch) == CHOOSE d \in 0..9 : ToString(d) = ch

\* The value of the run of digits that starts at position i.
RECURSIVE DigitsValue(_, _, _)
DigitsValue(str, i, acc) ==
  IF i > Len(str) \/ ~IsDigit(SubSeq(str, i, i)) THEN acc
  ELSE DigitsValue(str, i + 1, acc * 10 + DigitOf(SubSeq(str, i, i)))

NaN == <<"NaN">>

\* parseInt(v) of a trimmed string: an optional sign, then the leading digits.
ParseInt(str) ==
  LET signed == Len(str) > 0 /\ SubSeq(str, 1, 1) \in {"-", "+"}
      from == IF signed THEN 2 ELSE 1
  IN IF from > Len(str) \/ ~IsDigit(SubSeq(str, from, from)) THEN NaN
     ELSE IF signed /\ SubSeq(str, 1, 1) = "-" THEN Num(0 - DigitsValue(str, from, 0))
     ELSE Num(DigitsValue(str, from, 0))

\* isNaN(parseInt(v)) ? v : parseInt(v)
ParseValue(v) == IF ParseInt(v) = NaN THEN Str(v) ELSE ParseInt(v)

\* parsed[i - 1] || null
OrNull(parsed, i) ==
  IF i <= Len(parsed) /\ Truthy(parsed[i]) THEN parsed[i] ELSE Null

\* for (let i = 1; i < columns.length; i++) rowData[columns[i]] = parsed[i - 1] || null
RECURSIVE LoadRowData(_, _, _, _)
LoadRowData(columns, parsed, i, rowData) ==
  IF i > Len(columns) THEN rowData
  ELSE LoadRowData(columns, parsed, i + 1,
                   WithKey(rowData, columns[i], OrNull(parsed, i - 1)))

\* The loader before its first line: no current table, no columns.
LoadStart(cat) ==
  [status |-> "ok", tables |-> cat, currentTable |-> Null, columns |-> <<>>, lines |-> <<>>]

\* The body of the loop of loadFromText for one line. lines records, for every
\* value line handed to Rows.add, the counts the line and its header hold and
\* what the add returned.
LoadLine(st, rawLine) ==
  LET line == Trim(rawLine)
  IN IF line = "" \/ StartsWith(line, "//")
     THEN [st EXCEPT !.currentTable = Null]
     ELSE IF StartsWith(line, "tbl") /\ Includes(line, ":")
     THEN LET parts == Split(line, ":")
              tableName == parts[1]
              split == Split(parts[2], "|")
              columns == [c \in 1..Len(split) |-> Trim(split[c])]
              r == AddTable(st.tables, tableName, columns, <<>>)
          IN IF r.status = "ok"
             THEN [st EXCEPT !.tables = r.tables, !.currentTable = Str(tableName),
                             !.columns = columns]
             ELSE [st EXCEPT !.status = r.status, !.columns = columns]
     ELSE IF st.currentTable # Null
     THEN LET split == Split(line, "|")
              parsed == [v \in 1..Len(split) |-> ParseValue(Trim(split[v]))]
              rowData == LoadRowData(st.columns, parsed, 2, <<>>)
              name == st.currentTable[2]
              r == RowsAdd(GetTable(st.tables, name), rowData)
          IN [st EXCEPT !.status = r.status,
                        !.tables = [@ EXCEPT ![NormalizeName(name)] = r.tbl],
                        !.lines = Append(@, [table |-> name,
                                             declared |-> Len(st.columns) - 1,
                                             given |-> Len(split),
                                             status |-> r.status,
                                             id |-> r.value])]
     ELSE st

\* for (let line of lines), left by the first exception
RECURSIVE LoadLines(_, _, _)
LoadLines(st, lines, i) ==
  IF i > Len(lines) \/ st.status # "ok" THEN st
  ELSE LoadLines(LoadLine(st, lines[i]), lines, i + 1)

LoadFromText(cat, text) == LoadLines(LoadStart(cat), Split(text, "\n"), 1)

LoadFromTextCall(text) ==
  /\ Idle
  /\ \E r \in {LoadFromText(tables, text)} :
        /\ tables' = r.tables
        /\ result' = Outcome("driver.loadFromText", "", Undef, << <<"text", Str(text)>> >>,
                             r.status, r.lines)
  /\ UNCHANGED <<held, views, depthCache, metadata, advMetadata, validationCache, stack, pre,
                 returned>>

(***************************************************************************)
(* The loader: an empty driver that loads blocks for the tables A(id, x,   *)
(* y) and B(id, z), whose value lines hold as many values as the header    *)
(* declares, fewer, or more; rows are also created and deleted directly.   *)
(***************************************************************************)
LoadTexts ==
  { "tblA:id|x|y\n1|2",
    "tblA:id|x|y\n1\n3|4",
    "tblA:id|x|y\n1|2|3",
    "// players\ntblB:id | z\n ann \n\nbob",
    "tblB:id|z\nann|7\n5",
    "tblB:z|id\n1" }

InitLoad ==
  /\ tables = <<>>
  /\ views = <<>>
  /\ metadata = <<>>
  /\ stack = <<>>
  /\ result = NoOutcome
  /\ pre = NoCatalog
  /\ returned = [t \in {"tblA", "tblB"} |-> <<>>]
  /\ held = <<>>
  /\ advMetadata = <<>>
  /\ validationCache = {}
  /\ depthCache = <<>>

NextLoad ==
  \/ \E text \in LoadTexts : LoadFromTextCall(text)
  \/ \E n \in {"A", "B"} :
       /\ Len(returned[NormalizeName(n)]) < MaxCrudId
       /\ DbCreate(n, <<>>)
  \/ \E n \in {"A", "B"} : HasTable(tables, n) /\ DbDelete(n, Num(1))

SpecLoad == InitLoad /\ [][NextLoad]_vars

\* C26: loadFromText rejects a value line whose number of values differs from
\* the number of non-identity columns of the block's header with a
\* Malformed-Input error, and inserts no row for that line.
C26_MismatchedLineRejected ==
  [][result'.op = "driver.loadFromText"
       => \A k \in 1..Len(result'.value) :
            result'.value[k].given # result'.value[k].declared
              => (/\ result'.status = "MalformedInput"
                  /\ result'.value[k].status = "MalformedInput"
                  /\ result'.value[k].id = Undef)]_vars

\* C27: for every table and unique constraint, after any sequence of create,
\* update and delete calls, successful or failed, the set of keys in the
\* constraint's unique index equals the set of keys computed from the live
\* rows: no index entry exists for a row that is not live.
C27_IndexMatchesLiveRows ==
  \A t \in DOMAIN tables :
    \A i \in 1..Len(tables[t].unique) :
      tables[t].uniqueMaps[i]
        = {GetUniqueKey(tables[t], tables[t].data[p], i) : p \in 1..Len(tables[t].data)}

\* C28: referential integrity: after any sequence of validated create, update
\* and delete operations, every non-null value stored in a declared foreign-key
\* column of a live row equals the primary key of a live row of the declared
\* target table.
C28_ReferentialIntegrity ==
  Idle =>
    \A t \in DOMAIN tables :
      \A p \in 1..Len(tables[t].data) :
        \A k \in 1..Len(MetaOf(metadata, t).foreignKeys) :
          LET fk == MetaOf(metadata, t).foreignKeys[k]
              val == tables[t].data[p][GetIndex(tables[t].columns, fk[1])]
              target == GetTable(tables, fk[2])
              pkIdx == GetIndex(target.columns, PkOf(metadata, fk[2]))
          IN ~IsNullish(val) => \E q \in 1..Len(target.data) : target.data[q][pkIdx] = val

\* C29: the outcome of foreign-key validation depends only on the current
\* contents of the referenced tables: a manager create or update ends as the
\* same call ends on a manager that remembers no earlier validation.
C29_ValidationReadsCurrentState ==
  [][/\ result'.op = "adv.create"
          => result'.status
               = AdvCreate(tables, advMetadata, {}, result'.table, result'.fields).status
     /\ result'.op = "adv.update"
          => result'.status
               = AdvUpdate(tables, advMetadata, {}, result'.table, result'.id,
                           result'.fields).status]_vars

(***************************************************************************)
(* Dependent discovery: the two tables declared on AdvancedCrudManager,    *)
(* filled through the facade with Games rows that reference player 1 or    *)
(* no player, and manager.delete called on rows of either table.           *)
(***************************************************************************)
DiscoverInputs == {<<>>, << <<"player1_id", Num(1)>> >>}

NextDiscover ==
  \/ GetTable(tables, "tblPlayers").nextId <= MaxCrudId /\ DbCreate("tblPlayers", <<>>)
  \/ \E f \in DiscoverInputs :
       GetTable(tables, "tblGames").nextId <= MaxCrudId /\ DbCreate("tblGames", f)
  \/ \E t \in {"tblPlayers", "tblGames"}, id \in CrudIds : DbDelete(t, id)
  \/ \E t \in {"tblPlayers", "tblGames"}, id \in CrudIds : AdvDeleteCall(t, id)

SpecDiscover == InitAdv /\ [][NextDiscover]_vars

\* The key of the pair (table, id) in the visited set.
VisitedKey(pair) == pair[1] \o ":" \o PropertyKey(pair[2])

\* C30: dependent discovery keys the visited set by the (table, id) pair and
\* expands each pair once: after a manager delete of a live row the set holds
\* the key of the root and of every row that depends on it, two rows of one
\* table included, and no more keys than there were live rows.
C30_VisitedKeyedByTableAndId ==
  [][(/\ result'.op = "adv.delete"
      /\ result'.id \in LiveIds(GetTable(tables, result'.table)))
       => (/\ \A pair \in Dependents(tables, metadata,
                                     {<<NormalizeName(result'.table), result'.id>>}) :
                VisitedKey(pair) \in result'.value.visited
           /\ Cardinality(result'.value.visited)
                <= Cardinality(UNION {{<<t, r[1]>> : r \in Rows(tables, t)} :
                                        t \in DOMAIN tables}))]_vars

\* The number of dependency edges between the pairs of S, which are n edges
\* from the root, and pair; -1 when pair does not depend on them.
RECURSIVE Distance(_, _, _, _, _)
Distance(cat, md, S, pair, n) ==
  IF pair \in S THEN n
  ELSE IF Referencing(cat, md, S) \subseteq S THEN 0 - 1
  ELSE Distance(cat, md, S \cup Referencing(cat, md, S), pair, n + 1)

\* C31: a manager delete removes the dependents of the root in order of
\* non-increasing depth, the depth of a dependent being its distance from the
\* root along dependency edges: every dependent is removed, and never after a
\* row nearer to the root.
C31_DependentsRemovedDeepestFirst ==
  [][(/\ result'.op = "adv.delete"
      /\ result'.id \in LiveIds(GetTable(tables, result'.table)))
       => LET root == <<NormalizeName(result'.table), result'.id>>
              order == result'.value.order
          IN /\ \A pair \in Dependents(tables, metadata, {root}) \ {root} :
                  \E i \in 1..Len(order) : order[i] = pair
             /\ \A i, j \in 1..Len(order) :
                  i < j => Distance(tables, metadata, {root}, order[i], 0)
                             >= Distance(tables, metadata, {root}, order[j], 0)]_vars

(***************************************************************************)
(* Depths: the two tables declared on AdvancedCrudManager in either order, *)
(* each declared again with the declaration it has, rows created and       *)
(* deleted through the facade and read through manager.get.                *)
(***************************************************************************)
NextDepth ==
  \/ \E t \in {"tblPlayers", "tblGames"} : AdvDefineCall(t, MetaOf(metadata, t))
  \/ \E t \in {"tblPlayers", "tblGames"} :
       GetTable(tables, t).nextId <= MaxCrudId /\ DbCreate(t, <<>>)
  \/ \E t \in {"tblPlayers", "tblGames"}, id \in CrudIds : DbDelete(t, id)
  \/ \E f \in DiscoverInputs : AdvCreateCall("tblGames", f)
  \/ \E t \in {"tblPlayers", "tblGames"}, id \in CrudIds : AdvGetCall(t, id)

SpecDepth == InitAdv /\ [][NextDepth]_vars

\* The defined tables the declaration of t names as foreign-key targets.
DefinedTargets(md, t) == {u \in Targets(md, t) : \E i \in 1..Len(md) : md[i][1] = u}

\* 0 for a table with no foreign key to a defined table, else 1 plus the
\* largest depth among the tables it references.
RECURSIVE ExpectedDepth(_, _)
ExpectedDepth(md, t) ==
  IF DefinedTargets(md, t) = {} THEN 0
  ELSE LET depths == {ExpectedDepth(md, u) : u \in DefinedTargets(md, t)}
       IN 1 + CHOOSE m \in depths : \A d \in depths : d <= m

\* this.metadata.get(this._normalize(table))?.depth || 0
ManagerDepth(md, t) ==
  IF AdvHas(md, AdvNormalize(Str(t))) THEN AdvGet(md, AdvNormalize(Str(t))).depth ELSE 0

\* C32: once every table is defined, each table's depth is 0 when it declares
\* no foreign key to a defined table and otherwise 1 plus the largest depth
\* among the tables it references, whatever the order of the define calls.
C32_DepthsFollowDeclarations ==
  [][(result'.op = "adv.define" /\ result'.status = "ok")
       => \A i \in 1..Len(metadata) :
            ManagerDepth(advMetadata', metadata[i][1]) = ExpectedDepth(metadata, metadata[i][1])]_vars

\* Values the manager hands to select: validation codes, table and column
\* names, null.
SelectValues == {Num(0), Num(1), Str("tblGames"), Str("id"), Null}

\* C33: select(condition, trueVal, falseVal) returns trueVal when condition is
\* truthy and falseVal otherwise for every kind of value the manager passes to
\* it, so that _normalize returns the prefixed table name, _pkOf the
\* primary-key column name and get the found row.
C33_SelectReturnsChosenValue ==
  [][result'.op = "adv.get"
       => (/\ \A c \in {Num(0), Num(1)}, a, b \in SelectValues :
                Select(c, a, b) = IF Truthy(c) THEN a ELSE b
           /\ AdvNormalize(Str(result'.table)) = Str(NormalizeName(result'.table))
           /\ AdvPkOf(advMetadata, Str(result'.table))
                = Str(PkOf(metadata, NormalizeName(result'.table)))
           /\ result'.status = "ok"
           /\ result'.value
                = IF result'.id \in LiveIds(GetTable(tables, result'.table))
                  THEN CrudGet(tables, metadata, result'.table, result'.id)
                  ELSE Null)]_vars

\* C34: a cascade delete removes a child row only when one of its declared
\* foreign-key columns holds the id being deleted: when delete returns, every
\* row it removed is the root or depends on it through a column of its table;
\* a declared column the child table does not have removes no row.
C34_CascadeRemovesOnlyReferencingRows ==
  DeleteReturned =>
    \A t \in DOMAIN pre :
      \A r \in Rows(pre, t) :
        r[1] \notin LiveIds(tables[t])
          => <<t, r[1]>> \in Dependents(pre, metadata,
                                        {<<NormalizeName(result.table), result.id>>})

(***************************************************************************)
(* The dice application: Crud.prototype.delete with the orphan cleanup     *)
(***************************************************************************)
\* The cleanup as it would be without the loop over the games.
UsedByRollsOnly(cat) ==
  LET rolls == CrudReadAll(cat, "tblDiceRollsByPlayer", <<>>)
  IN {Lookup(rolls[i], "Combo_id") : i \in 1..Len(rolls)}

\* The ids _cleanupOrphanedCombinations collects in used: Combo_id of every
\* roll, comb1_id and comb2_id of every game where they are truthy.
UsedCombinations(cat) ==
  LET rolls == CrudReadAll(cat, "tblDiceRollsByPlayer", <<>>)
      games == CrudReadAll(cat, "tblGames", <<>>)
  IN {Lookup(rolls[i], "Combo_id") : i \in 1..Len(rolls)}
       \cup {Lookup(games[i], "comb1_id") :
               i \in {k \in 1..Len(games) : Truthy(Lookup(games[k], "comb1_id"))}}
       \cup {Lookup(games[i], "comb2_id") :
               i \in {k \in 1..Len(games) : Truthy(Lookup(games[k], "comb2_id"))}}

\* for (let c of combos) if (!used.has(c.id)) this.db.delete('tblCombination', c.id)
RECURSIVE DeleteUnused(_, _, _, _)
DeleteUnused(cat, combos, used, i) ==
  IF i > Len(combos) THEN cat
  ELSE IF Lookup(combos[i], "id") \in used THEN DeleteUnused(cat, combos, used, i + 1)
  ELSE DeleteUnused(DatabaseDelete(cat, "tblCombination", Lookup(combos[i], "id")).tables,
                    combos, used, i + 1)

\* Crud.prototype._cleanupOrphanedCombinations: the catalog it leaves
CleanupOrphanedCombinations(cat) ==
  DeleteUnused(cat, CrudReadAll(cat, "tblCombination", <<>>), UsedCombinations(cat), 1)

\* Crud.prototype.delete of the application; st is [status, tables].
RECURSIVE DeleteWithCleanup(_, _, _, _)
RECURSIVE CleanupOverTables(_, _, _, _, _)
RECURSIVE CleanupOverColumns(_, _, _, _, _, _, _)
RECURSIVE CleanupOverRows(_, _, _, _, _)
DeleteWithCleanup(st, md, tableName, id) ==
  LET n == CrudNormalize(tableName)
      children == CleanupOverTables(st, md, n, id, 1)
      own == DatabaseDelete(children.tables, n, id)
  IN IF st.status # "ok" THEN st
     ELSE IF children.status # "ok" THEN children
     ELSE IF own.status # "ok" THEN [status |-> own.status, tables |-> own.tables]
     ELSE IF n \in {"tblPlayers", "tblDiceRollsByPlayer", "tblGames"}
     THEN [status |-> "ok", tables |-> CleanupOrphanedCombinations(own.tables)]
     ELSE [status |-> "ok", tables |-> own.tables]

\* for (let tname in this.metadata), from entry i on
CleanupOverTables(st, md, n, id, i) ==
  IF i > Len(md) \/ st.status # "ok" THEN st
  ELSE CleanupOverTables(
         CleanupOverColumns(st, md, n, id, md[i][1], md[i][2].foreignKeys, 1),
         md, n, id, i + 1)

\* for (let col in m.foreignKeys), from entry j on
CleanupOverColumns(st, md, n, id, tname, fks, j) ==
  IF j > Len(fks) \/ st.status # "ok" THEN st
  ELSE IF fks[j][2] # n THEN CleanupOverColumns(st, md, n, id, tname, fks, j + 1)
  ELSE IF ~HasTable(st.tables, tname) THEN [st EXCEPT !.status = "TypeError"]
  ELSE CleanupOverColumns(
         CleanupOverRows(st, md, tname,
                         DatabaseRead(st.tables, tname, << <<fks[j][1], id>> >>), 1),
         md, n, id, tname, fks, j + 1)

\* for (let rowArr of rows) this.delete(tname, rowArr[0]), from row k on
CleanupOverRows(st, md, tname, rows, k) ==
  IF k > Len(rows) \/ st.status # "ok" THEN st
  ELSE CleanupOverRows(DeleteWithCleanup(st, md, tname, rows[k][1]), md, tname, rows, k + 1)

\* crud.delete(tableName, id) of the application
DeleteWithCleanupCall(tableName, id) ==
  /\ Idle
  /\ \E r \in {DeleteWithCleanup([status |-> "ok", tables |-> tables], metadata,
                                 tableName, id)} :
        /\ tables' = r.tables
        /\ result' = Outcome("crud.deleteWithCleanup", tableName, id, <<>>, r.status, Undef)
  /\ pre' = tables
  /\ UNCHANGED <<held, views, depthCache, metadata, advMetadata, validationCache, stack,
                 returned>>

(***************************************************************************)
(* The tables and metadata the application declares; rows are created and  *)
(* updated through Crud.prototype.create and update and deleted through    *)
(* its delete.                                                             *)
(***************************************************************************)
DemoCatalog ==
  AddTable(
    AddTable(
      AddTable(
        AddTable(<<>>, "tblCombination", <<"id", "diceH", "diceL">>, <<>>).tables,
        "tblPlayers", <<"id", "Name", "desc">>, <<>>).tables,
      "tblDiceRollsByPlayer", <<"id", "Player_id", "Combo_id">>, <<>>).tables,
    "tblGames", <<"id", "player1_id", "player2_id", "comb1_id", "comb2_id">>, <<>>).tables

DemoMetadata ==
  CrudDefine(
    CrudDefine(
      CrudDefine(
        CrudDefine(<<>>, "tblCombination", [primaryKey |-> "id", foreignKeys |-> <<>>]),
        "tblPlayers", [primaryKey |-> "id", foreignKeys |-> <<>>]),
      "tblDiceRollsByPlayer",
      [primaryKey |-> "id",
       foreignKeys |-> << <<"Player_id", "tblPlayers">>, <<"Combo_id", "tblCombination">> >>]),
    "tblGames",
    [primaryKey |-> "id",
     foreignKeys |-> << <<"player1_id", "tblPlayers">>, <<"player2_id", "tblPlayers">>,
                        <<"comb1_id", "tblCombination">>, <<"comb2_id", "tblCombination">> >>])

DemoTables == {"tblCombination", "tblPlayers", "tblDiceRollsByPlayer", "tblGames"}

RollInputs ==
  { << <<"Player_id", Num(1)>>, <<"Combo_id", Num(1)>> >>,
    << <<"Player_id", Num(2)>>, <<"Combo_id", Num(1)>> >>,
    << <<"Player_id", Num(1)>>, <<"Combo_id", Num(2)>> >> }

GameInputs ==
  { << <<"player1_id", Num(1)>>, <<"comb1_id", Num(1)>> >>,
    << <<"player1_id", Num(2)>>, <<"comb1_id", Num(2)>>, <<"comb2_id", Num(1)>> >>,
    << <<"comb2_id", Num(2)>> >> }

RollUpdates == { << <<"Combo_id", Num(2)>> >>, << <<"Combo_id", Null>> >> }

InitDemo ==
  /\ tables = DemoCatalog
  /\ metadata = DemoMetadata
  /\ stack = <<>>
  /\ result = NoOutcome
  /\ pre = NoCatalog
  /\ returned = [t \in DemoTables |-> <<>>]
  /\ held = <<>>
  /\ advMetadata = <<>>
  /\ validationCache = {}
  /\ depthCache = <<>>
  /\ views = <<>>

NextDemo ==
  \/ \E t \in {"tblCombination", "tblPlayers"} : CrudCreateCall(t, <<>>)
  \/ \E f \in RollInputs : CrudCreateCall("tblDiceRollsByPlayer", f)
  \/ \E f \in GameInputs : CrudCreateCall("tblGames", f)
  \/ \E id \in CrudIds, f \in RollUpdates : CrudUpdateCall("tblDiceRollsByPlayer", id, f)
  \/ \E t \in DemoTables, id \in CrudIds : DeleteWithCleanupCall(t, id)

SpecDemo == InitDemo /\ [][NextDemo]_vars

\* A live roll or game of cat references combination c.
CombinationReferenced(cat, c) ==
  \/ \E r \in Rows(cat, "tblDiceRollsByPlayer") : r[3] = c
  \/ \E g \in Rows(cat, "tblGames") : g[4] = c \/ g[5] = c

\* C35: the orphan cleanup run by delete on tblPlayers, tblDiceRollsByPlayer
\* or tblGames removes only combinations that no roll and no game references:
\* when delete returns, no combination a live roll or game references has been
\* removed and no unreferenced combination remains.
C35_CleanupRemovesOnlyOrphans ==
  [][(/\ result'.op = "crud.deleteWithCleanup"
      /\ result'.table \in {"tblPlayers", "tblDiceRollsByPlayer", "tblGames"})
       => (/\ result'.status = "ok"
           /\ \A c \in LiveIds(tables["tblCombination"]) :
                c \in LiveIds(tables'["tblCombination"])
                  <=> CombinationReferenced(tables', c)
           /\ \A c \in LiveIds(tables'["tblCombination"]) :
                c \in LiveIds(tables["tblCombination"]))]_vars

\* A delete of a player has returned: the combination its roll alone
\* referenced is gone, the combination a live game references is kept.
C35_Witness ==
  /\ result.op = "crud.deleteWithCleanup"
  /\ result.table = "tblPlayers"
  /\ result.status = "ok"
  /\ pre # NoCatalog
  /\ Len(pre["tblCombination"].data) = 2
  /\ Len(pre["tblDiceRollsByPlayer"].data) > Len(tables["tblDiceRollsByPlayer"].data)
  /\ Len(tables["tblCombination"].data) = 1
  /\ \E c \in LiveIds(tables["tblCombination"]) :
       \E g \in Rows(tables, "tblGames") : g[4] = c \/ g[5] = c

(***************************************************************************)
(* DatabaseDriver.addUnique                                                *)
(***************************************************************************)
\* table.unique.push(uniqueCols): the list of constraints grows, the list of
\* indexes the Rows constructor built does not.
AddUniqueConstraint(cat, tableName, uniqueCols) ==
  IF ~HasTable(cat, tableName) THEN [status |-> "TypeError", tables |-> cat]
  ELSE [status |-> "ok",
        tables |-> [cat EXCEPT ![NormalizeName(tableName)].unique = Append(@, uniqueCols)]]

\* Constraints a table is given before addUnique is called no more.
MaxUnique == 2

AddUniqueCall(tableName, uniqueCols) ==
  /\ Idle
  /\ HasTable(tables, tableName)
  /\ Len(GetTable(tables, tableName).unique) < MaxUnique
  /\ \E r \in {AddUniqueConstraint(tables, tableName, uniqueCols)} :
        /\ tables' = r.tables
        /\ result' = Outcome("driver.addUnique", tableName, Undef, <<>>, r.status, Undef)
  /\ UNCHANGED <<held, views, depthCache, metadata, advMetadata, validationCache, stack, pre,
                 returned>>

(***************************************************************************)
(* Constraints added later: the table T(id, x, y) declared with no unique  *)
(* constraint, given constraints with addUnique between creates, updates   *)
(* and deletes.                                                            *)
(***************************************************************************)
InitUnique ==
  /\ tables = AddTable(<<>>, "T", RowColumns, <<>>).tables
  /\ metadata = <<>>
  /\ stack = <<>>
  /\ result = NoOutcome
  /\ pre = NoCatalog
  /\ returned = [t \in {"tblT"} |-> <<>>]
  /\ held = <<>>
  /\ advMetadata = <<>>
  /\ validationCache = {}
  /\ depthCache = <<>>
  /\ views = <<>>

NextUnique ==
  \/ \E f \in UpdateCreates : DbCreate("T", f)
  \/ \E id \in RowIds, f \in UpdateCreates : DbUpdate("T", id, f)
  \/ \E id \in RowIds : DbDelete("T", id)
  \/ \E u \in {<<"x">>, <<"x", "y">>} : AddUniqueCall("T", u)

SpecUnique == InitUnique /\ [][NextUnique]_vars

\* C36: a unique constraint added to an existing table with addUnique is
\* enforced from then on: a later create whose tuple differs from every live
\* row's succeeds, and one whose tuple equals a live row's fails with a unique
\* violation.
C36_AddedConstraintEnforced ==
  [][(/\ result'.op = "db.create"
      /\ GetTable(tables, result'.table).unique # <<>>)
       => LET tbl == GetTable(tables, result'.table)
              asked == FillRow(tbl, result'.fields)
              taken == \E i \in 1..Len(tbl.unique) :
                         \E p \in 1..Len(tbl.data) :
                           ConstraintTuple(tbl, tbl.data[p], i) = ConstraintTuple(tbl, asked, i)
          IN result'.status = IF taken THEN "UniqueViolation" ELSE "ok"]_vars

\* The signed 32-bit integers the utilities are asked about: the two ends of
\* the range, their neighbours, and the values around zero and around a
\* change of the upper half.
Int32Inputs ==
  { <<-32768, 0>>, <<-32768, 1>>, <<-1, 0>>, <<-1, 65534>>, <<-1, 65535>>,
    <<0, 0>>, <<0, 1>>, <<0, 65535>>, <<1, 0>>, <<32767, 65534>>, <<32767, 65535>> }

\* BranchlessUtils.max(a, b)
MaxCall(a, b) ==
  /\ result' = Outcome("utils.max", "", Undef, <<a, b>>, "ok", BranchlessMax(a, b))
  /\ UNCHANGED <<held, tables, metadata, stack, pre, returned, advMetadata,
                 validationCache, depthCache, views>>

\* BranchlessUtils.min(a, b)
MinCall(a, b) ==
  /\ result' = Outcome("utils.min", "", Undef, <<a, b>>, "ok", BranchlessMin(a, b))
  /\ UNCHANGED <<held, tables, metadata, stack, pre, returned, advMetadata,
                 validationCache, depthCache, views>>

InitUtils ==
  /\ tables = <<>>
  /\ metadata = <<>>
  /\ stack = <<>>
  /\ result = NoOutcome
  /\ pre = NoCatalog
  /\ returned = <<>>
  /\ held = <<>>
  /\ advMetadata = <<>>
  /\ validationCache = {}
  /\ depthCache = <<>>
  /\ views = <<>>

NextUtils ==
  \/ \E a, b \in Int32Inputs : MaxCall(a, b)
  \/ \E a, b \in Int32Inputs : MinCall(a, b)

SpecUtils == InitUtils /\ [][NextUtils]_vars

\* C37: max(a, b) is the larger and min(a, b) the smaller of a and b for all
\* signed 32-bit integers a and b, pairs whose difference does not fit in
\* 32 bits included.
C37_MaxMinOverInt32 ==
  [][/\ result'.op = "utils.max"
        => result'.value = IF WideLess(result'.fields[1], result'.fields[2])
                           THEN result'.fields[2] ELSE result'.fields[1]
     /\ result'.op = "utils.min"
        => result'.value = IF WideLess(result'.fields[1], result'.fields[2])
                           THEN result'.fields[1] ELSE result'.fields[2]]_vars

====
